---- MODULE Spec2Model ----
(***************************************************************************)
(* Model of the static-site hosting module (src/modules/static-sites):     *)
(* the task registry and the zip/unzip background jobs, the path sandbox,  *)
(* the quota enforcer, the domain bindings and the upload pipeline.        *)
(*                                                                         *)
(* Strings the code inspects character by character (request paths,        *)
(* domain patterns) are sequences of one-character strings.  File paths    *)
(* inside a space's tree, once resolved, are opaque names.                 *)
(***************************************************************************)
EXTENDS Integers, Sequences, FiniteSets, TLC

\* ------------------------------------------------------------------ bounds
MaxTasks == 1       \* tasks created in one run
MaxBytes == 2       \* largest byte counter an archive writer reports
MaxSize == 2        \* largest file size / chunk total on disk
MaxTokens == 4      \* pieces a request path is assembled from
MaxDomainReqs == 2  \* domain requests made in one run
MaxUploads == 1     \* upload requests made in one run
MaxOps == 1         \* file-write and item-delete requests made in one run
MaxLookups == 2     \* getBindings calls made in one run
MaxSpaceReqs == 2    \* space-level dashboard requests made in one run
maxSpacesPerUser == 1  \* config.staticSites.maxSpacesPerUser of the model

MaxBindings == 2    \* bindings in the list a host is resolved against

\* ------------------------------------------------------------- small helpers
Min(a, b) == IF a < b THEN a ELSE b

Max(a, b) == IF a > b THEN a ELSE b

\* Math.round(n / d) for n >= 0, d > 0: halves round up.
Round(n, d) == (2 * n + d) \div (2 * d)

\* ------------------------------------------------------------------- values
Accounts == {"alice", "bob"}

SpaceIds == {"s1", "s2"}

TaskIds == 1..MaxTasks

NoMessage == "none"

\* What a lookup of a missing task yields.
undefined ==
    [id |-> 0, owner |-> "nobody", status |-> "undefined", progress |-> 0,
     message |-> NoMessage]

\* Paths of a space's tree, in directory order.
PathSeq == <<"a.txt", "z.zip">>

Paths == {PathSeq[i] : i \in DOMAIN PathSeq}

\* A file: its size and, when its bytes are a zip archive, the archive's
\* entries in order (<<>>: not an archive).
NoFile == [size |-> -1, entries |-> <<>>]

File(size, entries) == [size |-> size, entries |-> entries]

\* The empty relative path: the space root directory itself.
RootDir == ""

\* ------------------------------------------------------------------ state
VARIABLES
    maxSpaceBytes,  \* config.staticSites.maxSpaceBytes
    maxTotalBytes,  \* config.staticSites.maxTotalBytes
    registry,       \* Space Registry: space id -> [owner, domains, usedBytes]
    disk,           \* storage tree: space id -> path -> file
    tasks,          \* the tasks Map: task id -> task record
    jobs,           \* detached background jobs: task id -> job locals
    uploads,        \* upload requests: number -> the route's locals
    ops,            \* file-write and item-delete requests: number -> locals
    lastPoll,       \* the GET /api/static/tasks/:taskId being answered, with its response
    pathRoot,       \* safeResolve: its spaceRoot argument
    pathReq,        \* safeResolve: its requestPath argument
    pathOut,        \* safeResolve: what the call gave
    cache,          \* the Domain Binding Cache: null, or the bindings loaded last
    domReqs,        \* domain requests: number -> the handler's locals
    domainResp,     \* the domain request being answered, with its response
    quotaIn,        \* a write's proposed delta and the usages read for it
    quotaOut,       \* the outcome of that write's quota check and usage update
    fnIn,           \* a call of one of the domain-pattern functions: its arguments
    fnOut,          \* what that call returned
    pubReq,         \* the public request being answered, with what the router did
    spaceReqs,      \* space-level dashboard requests: number -> the route's locals
    now,            \* Date.now(), in ms since the process started
    lookups         \* getBindings calls: number -> the call's locals and its answer

pathVars == <<pathRoot, pathReq, pathOut>>

domainVars == <<cache, domReqs, domainResp>>

\* The state of the components a storage or task action never touches.
quotaVars == <<quotaIn, quotaOut>>

fnVars == <<fnIn, fnOut>>

ttlVars == <<now, lookups>>

restVars == <<pathVars, domainVars, quotaVars, fnVars, pubReq, spaceReqs, ttlVars>>

vars ==
    <<maxSpaceBytes, maxTotalBytes, registry, disk, tasks, jobs, uploads, ops, lastPoll,
      restVars>>

\* ============================================================ task registry
\* createTask: a fresh random id, status running, progress 0.
createTask(id, owner) ==
    [id |-> id, owner |-> owner, status |-> "running", progress |-> 0,
     message |-> NoMessage]

\* updateTask: Object.assign(task, patch) on the task with this id, if any.
updateTask(id, patch) ==
    IF id \notin DOMAIN tasks THEN tasks
    ELSE [tasks EXCEPT ![id] =
            [f \in DOMAIN tasks[id] |->
                IF f \in DOMAIN patch THEN patch[f] ELSE tasks[id][f]]]

\* A faulty variant of getTask that forgets the owner comparison.
getTaskAnyOwner(id, owner) ==
    IF id \notin DOMAIN tasks THEN undefined ELSE tasks[id]

\* getTask: the task, or undefined when it is missing or owned by another.
getTask(id, owner) ==
    IF id \notin DOMAIN tasks \/ tasks[id].owner # owner THEN undefined
    ELSE tasks[id]

\* jsonGuard's catch: status 400 and {success: false, message}.
JsonError(message) ==
    [status |-> 400, success |-> FALSE, message |-> message, data |-> undefined]

JsonOk(data) ==
    [status |-> 200, success |-> TRUE, message |-> NoMessage, data |-> data]

\* No poll is being answered.
NoPoll == [who |-> "nobody", id |-> -1, known |-> FALSE, resp |-> JsonError(NoMessage)]

\* The task route: getTask, throw when undefined, else the task as data.
TaskRoute(id, accountId) ==
    LET task == getTask(id, accountId)
    IN  IF task = undefined THEN JsonError("task not found") ELSE JsonOk(task)

\* ============================================================ quota enforcer
QuotaOk == "ok"

\* A faulty variant of ensureWithinLimits that also rejects reaching a ceiling.
ensureWithinLimitsStrict(sizeDelta, spaceUsed, userUsed) ==
    IF spaceUsed + sizeDelta >= maxSpaceBytes THEN "space capacity exceeded"
    ELSE IF userUsed + sizeDelta >= maxTotalBytes THEN "total capacity exceeded"
    ELSE QuotaOk

\* A faulty variant of ensureWithinLimits that checks the owner's ceiling only.
ensureWithinLimitsOwnerOnly(sizeDelta, spaceUsed, userUsed) ==
    IF userUsed + sizeDelta > maxTotalBytes THEN "total capacity exceeded" ELSE QuotaOk

\* ensureWithinLimits: the message of the error it throws, or QuotaOk.
ensureWithinLimits(sizeDelta, spaceUsed, userUsed) ==
    IF spaceUsed + sizeDelta > maxSpaceBytes THEN "space capacity exceeded"
    ELSE IF userUsed + sizeDelta > maxTotalBytes THEN "total capacity exceeded"
    ELSE QuotaOk

RECURSIVE SumUsed(_, _)
SumUsed(reg, S) ==
    IF S = {} THEN 0
    ELSE LET s == CHOOSE x \in S : TRUE
         IN  reg[s].usedBytes + SumUsed(reg, S \ {s})

\* listStaticSpacesByOwner(owner), as the set of their ids.
listStaticSpacesByOwner(owner) ==
    {s \in DOMAIN registry : registry[s].owner = owner}

\* getUserUsage: the owner's recorded usage summed over their spaces.
getUserUsage(owner) == SumUsed(registry, listStaticSpacesByOwner(owner))

\* updateStaticSpaceUsage(id, n): the registry with the counter overwritten.
updateStaticSpaceUsage(id, n) ==
    IF id \notin DOMAIN registry THEN registry
    ELSE [registry EXCEPT ![id].usedBytes = n]

\* ======================================================== zip background job
\* The percentage the progress callbacks compute.
Percent(processed, total) ==
    IF total > 0 THEN Min(100, Round(processed * 100, total)) ELSE 0

\* collectPaths throws when fsp.stat fails on a selected path that is missing.
collectPathsThrows(space, sel) ==
    \E p \in sel : p # RootDir /\ disk[space][p] = NoFile

\* collectPaths over the selected relative paths: the files beneath them.
collectPaths(space, sel) ==
    {p \in Paths : disk[space][p] # NoFile /\ (p \in sel \/ RootDir \in sel)}

\* The entries an archive of these files holds, in directory order.
ArchiveOf(space, files) ==
    LET present == SelectSeq(PathSeq, LAMBDA p : p \in files /\ disk[space][p] # NoFile)
    IN  [i \in DOMAIN present |->
            [path |-> present[i], size |-> disk[space][present[i]].size, type |-> "File"]]

\* The success body the zip and unzip routes write before the job starts.
TaskAccepted(id) == [status |-> 200, success |-> TRUE, taskId |-> id]

\* A faulty variant of EndedJob in which the job's end rewrites the response of
\* the request that started it.
EndedJobRethrows(j) ==
    [kind |-> j.kind, pc |-> "end", owner |-> j.owner, space |-> j.space,
     resp |-> [status |-> 400, success |-> FALSE, taskId |-> 0],
     usedSnap |-> 0, sel |-> {}, out |-> RootDir, files |-> {}, processed |-> 0,
     total |-> 0, delta |-> 0, next |-> 1, entries |-> <<>>, target |-> RootDir]

\* A job that has returned: its locals are gone; the response the request got
\* is what it was.
EndedJob(j) ==
    [kind |-> j.kind, pc |-> "end", owner |-> j.owner, space |-> j.space,
     resp |-> j.resp, usedSnap |-> 0, sel |-> {}, out |-> RootDir, files |-> {}, processed |-> 0,
     total |-> 0, delta |-> 0, next |-> 1, entries |-> <<>>, target |-> RootDir]

NoJobFields ==
    [files |-> {}, processed |-> 0, total |-> 0, delta |-> 0, next |-> 1,
     entries |-> <<>>, target |-> RootDir]

\* POST /zip after validation: createTask, the success response, and the
\* detached job started with the space record read by the request.
ZipRequest(who, space, sel, outputName) ==
    /\ Cardinality(DOMAIN tasks) < MaxTasks
    /\ space \in DOMAIN registry /\ registry[space].owner = who
    /\ sel # {}
    /\ LET id == Cardinality(DOMAIN tasks) + 1
       IN  /\ tasks' = [t \in DOMAIN tasks \cup {id} |->
                          IF t = id THEN createTask(id, who) ELSE tasks[t]]
           /\ jobs' = [t \in DOMAIN jobs \cup {id} |->
                          IF t = id
                          THEN [kind |-> "zip", pc |-> "collect", owner |-> who,
                                space |-> space, usedSnap |-> registry[space].usedBytes,
                                resp |-> TaskAccepted(id),
                                sel |-> sel, out |-> outputName] @@ NoJobFields
                          ELSE jobs[t]]
    /\ lastPoll' = NoPoll
    /\ UNCHANGED <<restVars, uploads, ops, maxSpaceBytes, maxTotalBytes, registry, disk>>

\* The job up to archive.finalize(): collect the files, open the output file
\* (created empty), register the archive's handlers.  A failing stat or an
\* empty selection is caught and recorded on the task.
ZipCollect(id) ==
    /\ id \in DOMAIN jobs /\ jobs[id].kind = "zip" /\ jobs[id].pc = "collect"
    /\ LET j == jobs[id]
           files == collectPaths(j.space, j.sel)
       IN  IF collectPathsThrows(j.space, j.sel) \/ files = {}
           THEN /\ tasks' = updateTask(id, [status |-> "failed",
                                 message |-> IF collectPathsThrows(j.space, j.sel)
                                             THEN "ENOENT" ELSE "no files to compress"])
                /\ jobs' = [jobs EXCEPT ![id] = EndedJob(jobs[id])]
                /\ UNCHANGED disk
           ELSE /\ disk' = [disk EXCEPT ![j.space][j.out] = File(0, <<>>)]
                /\ jobs' = [jobs EXCEPT ![id].pc = "archiving", ![id].files = files,
                                       ![id].sel = {}]
                /\ UNCHANGED tasks
    /\ lastPoll' = NoPoll
    /\ UNCHANGED <<restVars, uploads, ops, maxSpaceBytes, maxTotalBytes, registry>>

\* archive.on('progress'): the archive writer reports its two counters, each
\* of which only grows (an entry is counted in the total when it is stat'ed and
\* in the processed bytes when it has been written, so processed <= total);
\* the task's progress becomes the computed percentage.
ZipProgress(id, processed, total) ==
    /\ id \in DOMAIN jobs /\ jobs[id].kind = "zip" /\ jobs[id].pc = "archiving"
    /\ processed >= jobs[id].processed /\ total >= jobs[id].total
    /\ processed <= total
    /\ <<processed, total>> # <<jobs[id].processed, jobs[id].total>>
    /\ tasks' = updateTask(id, [progress |-> Percent(processed, total)])
    /\ jobs' = [jobs EXCEPT ![id].processed = processed, ![id].total = total]
    /\ lastPoll' = NoPoll
    /\ UNCHANGED <<restVars, uploads, ops, maxSpaceBytes, maxTotalBytes, registry, disk>>

\* archive.on('error'): the task is marked failed; the job itself goes on.
ZipArchiveError(id) ==
    /\ id \in DOMAIN jobs /\ jobs[id].kind = "zip" /\ jobs[id].pc = "archiving"
    /\ tasks' = updateTask(id, [status |-> "failed", message |-> "archive error"])
    /\ lastPoll' = NoPoll
    /\ UNCHANGED <<restVars, uploads, ops, maxSpaceBytes, maxTotalBytes, registry, disk, jobs>>

\* archive.finalize() rejects: the job's catch marks the task failed.
ZipFinalizeReject(id) ==
    /\ id \in DOMAIN jobs /\ jobs[id].kind = "zip" /\ jobs[id].pc = "archiving"
    /\ tasks' = updateTask(id, [status |-> "failed", message |-> "archive error"])
    /\ jobs' = [jobs EXCEPT ![id] = EndedJob(jobs[id])]
    /\ lastPoll' = NoPoll
    /\ UNCHANGED <<restVars, uploads, ops, maxSpaceBytes, maxTotalBytes, registry, disk>>

\* archive.finalize() resolves and the output stream closes: the archive of
\* the collected files is on disk, with the size the compression gave it.
ZipFinalize(id, size) ==
    /\ id \in DOMAIN jobs /\ jobs[id].kind = "zip" /\ jobs[id].pc = "archiving"
    /\ LET j == jobs[id]
       IN  disk' = [disk EXCEPT ![j.space][j.out] =
                        File(size, ArchiveOf(j.space, j.files))]
    /\ jobs' = [jobs EXCEPT ![id].pc = "written"]
    /\ lastPoll' = NoPoll
    /\ UNCHANGED <<restVars, uploads, ops, maxSpaceBytes, maxTotalBytes, registry, tasks>>

\* The output stream's 'close' comes before the job, resumed from
\* archive.finalize(), has registered its listener for it: the archive is on
\* disk and the job waits for an event that has passed.
ZipCloseUnheard(id, size) ==
    /\ id \in DOMAIN jobs /\ jobs[id].kind = "zip" /\ jobs[id].pc = "archiving"
    /\ LET j == jobs[id]
       IN  disk' = [disk EXCEPT ![j.space][j.out] =
                        File(size, ArchiveOf(j.space, j.files))]
    /\ jobs' = [jobs EXCEPT ![id].pc = "waiting"]
    /\ lastPoll' = NoPoll
    /\ UNCHANGED <<restVars, uploads, ops, maxSpaceBytes, maxTotalBytes, registry, tasks>>

\* A faulty variant of ZipComplete that records the usage before it checks the
\* quota.
ZipCompleteRecordsFirst(id) ==
    /\ id \in DOMAIN jobs /\ jobs[id].kind = "zip" /\ jobs[id].pc = "written"
    /\ LET j == jobs[id]
           stat == disk[j.space][j.out]
           delta == stat.size
           quota == ensureWithinLimits(delta, j.usedSnap, getUserUsage(j.owner))
       IN  IF stat = NoFile
           THEN /\ tasks' = updateTask(id, [status |-> "failed", message |-> "ENOENT"])
                /\ UNCHANGED registry
           ELSE /\ registry' = updateStaticSpaceUsage(j.space, j.usedSnap + delta)
                /\ tasks' = IF quota # QuotaOk
                            THEN updateTask(id, [status |-> "failed", message |-> quota])
                            ELSE updateTask(id, [status |-> "done", progress |-> 100])
    /\ jobs' = [jobs EXCEPT ![id] = EndedJob(jobs[id])]
    /\ lastPoll' = NoPoll
    /\ UNCHANGED <<restVars, uploads, ops, maxSpaceBytes, maxTotalBytes, disk>>

\* The job after the archive is written: stat it, recompute the owner's usage,
\* check the quota post hoc, then record the usage and mark the task done; a
\* failing stat or quota check is caught and recorded on the task.
ZipComplete(id) ==
    /\ id \in DOMAIN jobs /\ jobs[id].kind = "zip" /\ jobs[id].pc = "written"
    /\ LET j == jobs[id]
           stat == disk[j.space][j.out]
           delta == stat.size
           userUsed == getUserUsage(j.owner)
           quota == ensureWithinLimits(delta, j.usedSnap, userUsed)
       IN  IF stat = NoFile \/ quota # QuotaOk
           THEN /\ tasks' = updateTask(id, [status |-> "failed",
                                 message |-> IF stat = NoFile THEN "ENOENT" ELSE quota])
                /\ UNCHANGED registry
           ELSE /\ registry' = updateStaticSpaceUsage(j.space, j.usedSnap + delta)
                /\ tasks' = updateTask(id, [status |-> "done", progress |-> 100])
    /\ jobs' = [jobs EXCEPT ![id] = EndedJob(jobs[id])]
    /\ lastPoll' = NoPoll
    /\ UNCHANGED <<restVars, uploads, ops, maxSpaceBytes, maxTotalBytes, disk>>

\* ====================================================== unzip background job
\* ensureSafeArchivePath throws on an absolute entry path or one with '..'.
\* Entry paths of the model are names of the tree or the marker "../evil".
ensureSafeArchivePathThrows(entryPath) == entryPath \notin Paths

Entry(path, size) == [path |-> path, size |-> size, type |-> "File"]

\* A directory entry of an archive.
DirEntry(path) == [path |-> path, size |-> 0, type |-> "Directory"]

RECURSIVE SumEntrySizes(_)
SumEntrySizes(entries) ==
    IF entries = <<>> THEN 0
    ELSE (IF Head(entries).type = "File" THEN Head(entries).size ELSE 0)
            + SumEntrySizes(Tail(entries))

\* The pre-scan's existingSize: the sizes of the regular files already present
\* at the destinations of the file entries.
RECURSIVE SumExisting(_, _)
SumExisting(space, entries) ==
    IF entries = <<>> THEN 0
    ELSE (IF Head(entries).type = "File" /\ Head(entries).path \in Paths
             /\ disk[space][Head(entries).path] # NoFile
          THEN disk[space][Head(entries).path].size ELSE 0)
            + SumExisting(space, Tail(entries))

\* POST /unzip after validation: createTask, the success response, and the
\* detached job started with the space record read by the request.
UnzipRequest(who, space, zipPath) ==
    /\ Cardinality(DOMAIN tasks) < MaxTasks
    /\ space \in DOMAIN registry /\ registry[space].owner = who
    /\ LET id == Cardinality(DOMAIN tasks) + 1
       IN  /\ tasks' = [t \in DOMAIN tasks \cup {id} |->
                          IF t = id THEN createTask(id, who) ELSE tasks[t]]
           /\ jobs' = [t \in DOMAIN jobs \cup {id} |->
                          IF t = id
                          THEN [kind |-> "unzip", pc |-> "open", owner |-> who,
                                space |-> space, usedSnap |-> registry[space].usedBytes,
                                resp |-> TaskAccepted(id),
                                sel |-> {}, out |-> zipPath] @@ NoJobFields
                          ELSE jobs[t]]
    /\ lastPoll' = NoPoll
    /\ UNCHANGED <<restVars, uploads, ops, maxSpaceBytes, maxTotalBytes, registry, disk>>

\* A faulty variant of UnzipScan that checks the quota only after the first
\* entry has been extracted.
UnzipScanChecksLate(id) ==
    /\ id \in DOMAIN jobs /\ jobs[id].kind = "unzip" /\ jobs[id].pc = "open"
    /\ LET j == jobs[id]
           archive == disk[j.space][j.out]
           entries == archive.entries
           totalSize == SumEntrySizes(entries)
           delta == totalSize - SumExisting(j.space, entries)
           quota == ensureWithinLimits(delta, j.usedSnap, getUserUsage(j.owner))
           unsafe == \E i \in DOMAIN entries :
                         entries[i].type = "File" /\ ensureSafeArchivePathThrows(entries[i].path)
           fail(message) ==
               /\ tasks' = updateTask(id, [status |-> "failed", message |-> message])
               /\ jobs' = [jobs EXCEPT ![id] = EndedJob(j)]
       IN  IF archive = NoFile \/ entries = <<>>
           THEN fail("cannot open archive") /\ UNCHANGED disk
           ELSE IF unsafe THEN fail("unsafe archive path") /\ UNCHANGED disk
           ELSE IF quota # QuotaOk
           THEN /\ fail(quota)
                /\ disk' = [disk EXCEPT ![j.space][entries[1].path] =
                               File(entries[1].size, <<>>)]
           ELSE /\ jobs' = [jobs EXCEPT ![id].pc = "extract", ![id].entries = entries,
                                        ![id].delta = delta, ![id].total = totalSize,
                                        ![id].out = RootDir]
                /\ UNCHANGED <<tasks, disk>>
    /\ lastPoll' = NoPoll
    /\ UNCHANGED <<restVars, uploads, ops, maxSpaceBytes, maxTotalBytes, registry>>

\* The job up to the first extraction: open the archive, pre-scan its file
\* entries (sizes, unsafe paths, files already at the destinations; entries of
\* another type are skipped), check the quota once on the net delta.  Any throw is caught and recorded on the task.
UnzipScan(id) ==
    /\ id \in DOMAIN jobs /\ jobs[id].kind = "unzip" /\ jobs[id].pc = "open"
    /\ LET j == jobs[id]
           archive == disk[j.space][j.out]
           entries == archive.entries
           totalSize == SumEntrySizes(entries)
           existingSize == SumExisting(j.space, entries)
           delta == totalSize - existingSize
           userUsed == getUserUsage(j.owner)
           quota == ensureWithinLimits(delta, j.usedSnap, userUsed)
           unsafe == \E i \in DOMAIN entries :
                         entries[i].type = "File" /\ ensureSafeArchivePathThrows(entries[i].path)
           fail(message) ==
               /\ tasks' = updateTask(id, [status |-> "failed", message |-> message])
               /\ jobs' = [jobs EXCEPT ![id] = EndedJob(j)]
       IN  IF archive = NoFile \/ entries = <<>> THEN fail("cannot open archive")
           ELSE IF unsafe THEN fail("unsafe archive path")
           ELSE IF quota # QuotaOk THEN fail(quota)
           ELSE /\ jobs' = [jobs EXCEPT ![id].pc = "extract", ![id].entries = entries,
                                        ![id].delta = delta, ![id].total = totalSize,
                                        ![id].out = RootDir]
                /\ UNCHANGED tasks
    /\ lastPoll' = NoPoll
    /\ UNCHANGED <<restVars, uploads, ops, maxSpaceBytes, maxTotalBytes, registry, disk>>

\* The extraction loop's next entry: ensureSafeArchivePath is applied to it,
\* file or directory, and its throw is caught and recorded on the task; a
\* directory is created (it holds no bytes); a file's bytes are streamed onto
\* the destination and the progress callback sets the task's progress.
UnzipEntry(id) ==
    /\ id \in DOMAIN jobs /\ jobs[id].kind = "unzip" /\ jobs[id].pc = "extract"
    /\ jobs[id].next <= Len(jobs[id].entries)
    /\ LET j == jobs[id]
           entry == j.entries[j.next]
           processed == j.processed + entry.size
       IN  IF ensureSafeArchivePathThrows(entry.path)
           THEN /\ tasks' = updateTask(id, [status |-> "failed",
                                            message |-> "unsafe archive path"])
                /\ jobs' = [jobs EXCEPT ![id] = EndedJob(j)]
                /\ UNCHANGED disk
           ELSE IF entry.type = "Directory"
           THEN /\ jobs' = [jobs EXCEPT ![id].next = j.next + 1]
                /\ UNCHANGED <<tasks, disk>>
           ELSE /\ disk' = [disk EXCEPT ![j.space][entry.path] = File(entry.size, <<>>)]
                /\ tasks' = IF entry.size > 0
                            THEN updateTask(id, [progress |-> Percent(processed, j.total)])
                            ELSE tasks
                /\ jobs' = [jobs EXCEPT ![id].next = j.next + 1, ![id].processed = processed]
    /\ lastPoll' = NoPoll
    /\ UNCHANGED <<restVars, uploads, ops, maxSpaceBytes, maxTotalBytes, registry>>

\* A faulty variant of UnzipEntryError that records the usage all the same.
UnzipEntryErrorCounts(id) ==
    /\ id \in DOMAIN jobs /\ jobs[id].kind = "unzip" /\ jobs[id].pc = "extract"
    /\ jobs[id].next <= Len(jobs[id].entries)
    /\ tasks' = updateTask(id, [status |-> "failed", message |-> "extraction error"])
    /\ registry' = updateStaticSpaceUsage(jobs[id].space, jobs[id].usedSnap + jobs[id].delta)
    /\ jobs' = [jobs EXCEPT ![id] = EndedJob(jobs[id])]
    /\ lastPoll' = NoPoll
    /\ UNCHANGED <<restVars, uploads, ops, maxSpaceBytes, maxTotalBytes, disk>>

\* An entry's stream fails: the job's catch marks the task failed; what was
\* written stays.
UnzipEntryError(id) ==
    /\ id \in DOMAIN jobs /\ jobs[id].kind = "unzip" /\ jobs[id].pc = "extract"
    /\ jobs[id].next <= Len(jobs[id].entries)
    /\ tasks' = updateTask(id, [status |-> "failed", message |-> "extraction error"])
    /\ jobs' = [jobs EXCEPT ![id] = EndedJob(jobs[id])]
    /\ lastPoll' = NoPoll
    /\ UNCHANGED <<restVars, uploads, ops, maxSpaceBytes, maxTotalBytes, registry, disk>>

\* A faulty variant of UnzipFinish that adds the archive's gross size.
UnzipFinishGross(id) ==
    /\ id \in DOMAIN jobs /\ jobs[id].kind = "unzip" /\ jobs[id].pc = "extract"
    /\ jobs[id].next > Len(jobs[id].entries)
    /\ registry' = updateStaticSpaceUsage(jobs[id].space, jobs[id].usedSnap + jobs[id].total)
    /\ tasks' = updateTask(id, [status |-> "done", progress |-> 100])
    /\ jobs' = [jobs EXCEPT ![id] = EndedJob(jobs[id])]
    /\ lastPoll' = NoPoll
    /\ UNCHANGED <<restVars, uploads, ops, maxSpaceBytes, maxTotalBytes, disk>>

\* Every entry is extracted: the usage read at the start plus the net delta is
\* recorded and the task marked done.
UnzipFinish(id) ==
    /\ id \in DOMAIN jobs /\ jobs[id].kind = "unzip" /\ jobs[id].pc = "extract"
    /\ jobs[id].next > Len(jobs[id].entries)
    /\ registry' = updateStaticSpaceUsage(jobs[id].space, jobs[id].usedSnap + jobs[id].delta)
    /\ tasks' = updateTask(id, [status |-> "done", progress |-> 100])
    /\ jobs' = [jobs EXCEPT ![id] = EndedJob(jobs[id])]
    /\ lastPoll' = NoPoll
    /\ UNCHANGED <<restVars, uploads, ops, maxSpaceBytes, maxTotalBytes, disk>>

\* ============================================================= upload route
NoResp == [success |-> FALSE, message |-> NoMessage]

\* An upload slot not yet used.
NoUpload ==
    [pc |-> "free", who |-> "nobody", space |-> "none", path |-> RootDir,
     usedSnap |-> 0, userUsed |-> 0, oldSize |-> 0, uploadedBytes |-> 0,
     uploadError |-> NoMessage, writtenFile |-> FALSE, fileSeen |-> FALSE,
     hadFile |-> FALSE, destroyed |-> {}, resp |-> NoResp]

\* The messages of the errors ensureWithinLimits throws.
QuotaMessages == {"space capacity exceeded", "total capacity exceeded"}

\* POST /upload up to req.pipe(busboy): the space record and the owner's usage
\* are read once, the handlers' locals are initialised.
UploadStart(u, who, space, path) ==
    /\ uploads[u].pc = "free"
    /\ \A i \in 1..(u - 1) : uploads[i].pc # "free"
    /\ space \in DOMAIN registry /\ registry[space].owner = who
    /\ uploads' = [uploads EXCEPT ![u] =
                     [NoUpload EXCEPT !.pc = "parsing", !.who = who, !.space = space,
                                      !.path = path,
                                      !.usedSnap = registry[space].usedBytes,
                                      !.userUsed = getUserUsage(who)]]
    /\ lastPoll' = NoPoll
    /\ UNCHANGED <<restVars, ops, maxSpaceBytes, maxTotalBytes, registry, disk, tasks, jobs>>

\* busboy 'file' for a part without a filename: the error is kept, the part
\* is drained.
UploadFileUnnamed(u) ==
    /\ uploads[u].pc = "parsing"
    /\ uploads' = [uploads EXCEPT ![u].pc = "parsed", ![u].fileSeen = TRUE,
                                  ![u].uploadError = "filename is empty"]
    /\ lastPoll' = NoPoll
    /\ UNCHANGED <<restVars, ops, maxSpaceBytes, maxTotalBytes, registry, disk, tasks, jobs>>

\* busboy 'file' for a named part, up to the first chunk: stat the target for
\* oldSize, then streamToFileWithLimit opens the target for writing, which
\* creates it or truncates what is there.
UploadFile(u) ==
    /\ uploads[u].pc = "parsing"
    /\ LET up == uploads[u]
           stat == disk[up.space][up.path]
       IN  /\ uploads' = [uploads EXCEPT ![u].pc = "streaming", ![u].fileSeen = TRUE,
                                         ![u].oldSize = IF stat # NoFile THEN stat.size ELSE 0,
                                         ![u].hadFile = (stat # NoFile)]
           /\ disk' = [disk EXCEPT ![up.space][up.path] = File(0, <<>>)]
    /\ lastPoll' = NoPoll
    /\ UNCHANGED <<restVars, ops, maxSpaceBytes, maxTotalBytes, registry, tasks, jobs>>

\* stream 'data' with a chunk of n bytes: the running total is reported to
\* onProgress, whose ensureWithinLimits either passes, and the chunk is piped to
\* the file, or throws, and abort destroys both streams: the chunk is not
\* written, the promise rejects and the 'file' handler keeps the error;
\* writtenFile stays null.
UploadChunk(u, n) ==
    /\ uploads[u].pc = "streaming"
    /\ LET up == uploads[u]
           total == up.uploadedBytes + n
           quota == ensureWithinLimits(total - up.oldSize, up.usedSnap, up.userUsed)
       IN  IF quota = QuotaOk
           THEN /\ uploads' = [uploads EXCEPT ![u].uploadedBytes = total]
                /\ disk' = [disk EXCEPT ![up.space][up.path] =
                               File(disk[up.space][up.path].size + n, <<>>)]
           ELSE /\ uploads' = [uploads EXCEPT ![u].pc = "parsed",
                                              ![u].uploadedBytes = total,
                                              ![u].uploadError = quota,
                                              ![u].destroyed = {"output", "stream"}]
                /\ UNCHANGED disk
    /\ lastPoll' = NoPoll
    /\ UNCHANGED <<restVars, ops, maxSpaceBytes, maxTotalBytes, registry, tasks, jobs>>

\* A faulty variant of UploadChunkAfterAbort that runs the check again.
UploadChunkAfterAbortRechecks(u, n) ==
    /\ uploads[u].pc = "parsed" /\ uploads[u].destroyed # {}
    /\ LET up == uploads[u]
           total == up.uploadedBytes + n
           quota == ensureWithinLimits(total - up.oldSize, up.usedSnap, up.userUsed)
       IN  uploads' = [uploads EXCEPT ![u].uploadedBytes = total,
                                      ![u].uploadError = IF quota = QuotaOk THEN up.uploadError
                                                         ELSE quota]
    /\ lastPoll' = NoPoll
    /\ UNCHANGED <<restVars, ops, maxSpaceBytes, maxTotalBytes, registry, disk, tasks, jobs>>

\* stream 'data' delivered after abort: the handler returns at once, and the
\* destroyed write stream takes no chunk.
UploadChunkAfterAbort(u, n) ==
    /\ uploads[u].pc = "parsed" /\ uploads[u].destroyed # {}
    /\ lastPoll' = NoPoll
    /\ UNCHANGED <<restVars, uploads, ops, maxSpaceBytes, maxTotalBytes, registry, disk, tasks,
                   jobs>>

\* The part's stream ends: every chunk has been handed to the write stream,
\* which pipe ends; the flush to disk is still to come.
UploadPartEnd(u) ==
    /\ uploads[u].pc = "streaming"
    /\ uploads' = [uploads EXCEPT ![u].pc = "flushing"]
    /\ lastPoll' = NoPoll
    /\ UNCHANGED <<restVars, ops, maxSpaceBytes, maxTotalBytes, registry, disk, tasks, jobs>>

\* The write stream's 'finish': the file is flushed, the promise resolves and
\* writtenFile is set.  What was uploaded may be a zip archive holding these
\* entries.
UploadStreamEnd(u, entries) ==
    /\ uploads[u].pc = "flushing"
    /\ entries # <<>> => uploads[u].path = "z.zip" /\ uploads[u].uploadedBytes > 0
    /\ LET up == uploads[u]
       IN  disk' = [disk EXCEPT ![up.space][up.path] =
                        File(disk[up.space][up.path].size, entries)]
    /\ uploads' = [uploads EXCEPT ![u].pc = "parsed", ![u].writtenFile = TRUE]
    /\ lastPoll' = NoPoll
    /\ UNCHANGED <<restVars, ops, maxSpaceBytes, maxTotalBytes, registry, tasks, jobs>>

\* busboy 'filesLimit': the request carries a second file.  Its header is
\* parsed once the first part's bytes have been, whether or not the first
\* file's write has completed.
UploadFilesLimit(u) ==
    /\ uploads[u].pc \in {"streaming", "flushing", "parsed"}
    /\ uploads[u].uploadError # "only one file per upload"
    /\ uploads' = [uploads EXCEPT ![u].uploadError = "only one file per upload"]
    /\ lastPoll' = NoPoll
    /\ UNCHANGED <<restVars, ops, maxSpaceBytes, maxTotalBytes, registry, disk, tasks, jobs>>

\* An upload that has answered: only what it answered, and where it wrote, stay.
DoneUpload(up, resp) ==
    [NoUpload EXCEPT !.pc = "done", !.space = up.space, !.path = up.path,
                     !.hadFile = up.hadFile, !.fileSeen = up.fileSeen, !.resp = resp]

\* busboy 'finish': no file seen -> 400; an error kept -> remove writtenFile if
\* it is set, 400 with the error's message; else record the usage read at the
\* start plus the delta, clamped at 0, and answer success.  The event follows
\* the end of the part's stream; nothing makes it wait for the 'file' handler's
\* pending write, so it fires before or after the flush.
UploadFinish(u) ==
    /\ uploads[u].pc \in {"parsing", "flushing", "parsed"}
    /\ LET up == uploads[u]
       IN  IF ~up.fileSeen
           THEN /\ uploads' = [uploads EXCEPT ![u] =
                                 DoneUpload(up, [success |-> FALSE,
                                                 message |-> "no file uploaded"])]
                /\ UNCHANGED <<registry, disk>>
           ELSE IF up.uploadError # NoMessage
           THEN /\ disk' = IF up.writtenFile
                           THEN [disk EXCEPT ![up.space][up.path] = NoFile]
                           ELSE disk
                /\ uploads' = [uploads EXCEPT ![u] =
                                 DoneUpload(up, [success |-> FALSE,
                                                 message |-> up.uploadError])]
                /\ UNCHANGED registry
           ELSE /\ registry' = updateStaticSpaceUsage(up.space,
                                    Max(0, up.usedSnap + (up.uploadedBytes - up.oldSize)))
                /\ uploads' = [uploads EXCEPT ![u] =
                                 DoneUpload(up, [success |-> TRUE, message |-> NoMessage])]
                /\ UNCHANGED disk
    /\ lastPoll' = NoPoll
    /\ UNCHANGED <<restVars, ops, maxSpaceBytes, maxTotalBytes, tasks, jobs>>

\* ============================================== file POST and item DELETE
NoOp ==
    [kind |-> "none", pc |-> "free", who |-> "nobody", space |-> "none",
     path |-> RootDir, targetPath |-> <<>>, usedSnap |-> 0, resp |-> NoResp]

DoneOp(op, resp) ==
    [NoOp EXCEPT !.kind = op.kind, !.pc = "done", !.resp = resp,
                 !.targetPath = op.targetPath]

\* ensureEditableFile throws unless the extension is one of the editable ones.
ensureEditableFileThrows(filePath) == filePath # "a.txt"

\* getDirectorySize throws when the target is missing.
getDirectorySizeThrows(space, target) ==
    target # RootDir /\ disk[space][target] = NoFile

RECURSIVE SumSizes(_, _)
SumSizes(space, S) ==
    IF S = {} THEN 0
    ELSE LET p == CHOOSE x \in S : TRUE
         IN  disk[space][p].size + SumSizes(space, S \ {p})

\* getDirectorySize: a file's size, or the sizes beneath a directory summed.
getDirectorySize(space, target) ==
    IF target = RootDir THEN SumSizes(space, {p \in Paths : disk[space][p] # NoFile})
    ELSE disk[space][target].size

\* A file POST or an item DELETE up to its first await after the space record
\* is read.
OpStart(o, kind, who, space, path) ==
    /\ ops[o].pc = "free"
    /\ \A i \in 1..(o - 1) : ops[i].pc # "free"
    /\ space \in DOMAIN registry /\ registry[space].owner = who
    /\ kind = "write" => path # RootDir
    /\ ops' = [ops EXCEPT ![o] = [NoOp EXCEPT !.kind = kind, !.pc = "started", !.who = who,
                                              !.space = space, !.path = path,
                                              !.usedSnap = registry[space].usedBytes]]
    /\ lastPoll' = NoPoll
    /\ UNCHANGED <<restVars, uploads, maxSpaceBytes, maxTotalBytes, registry, disk, tasks, jobs>>

\* The rest of the file POST with content of newSize bytes.
WriteCommit(o, newSize) ==
    /\ ops[o].pc = "started" /\ ops[o].kind = "write"
    /\ LET op == ops[o]
           stat == disk[op.space][op.path]
           oldSize == IF stat # NoFile THEN stat.size ELSE 0
           userUsed == getUserUsage(op.who)
           quota == ensureWithinLimits(newSize - oldSize, op.usedSnap, userUsed)
       IN  IF ensureEditableFileThrows(op.path) \/ quota # QuotaOk
           THEN /\ ops' = [ops EXCEPT ![o] =
                             DoneOp(op, [success |-> FALSE,
                                         message |-> IF ensureEditableFileThrows(op.path)
                                                     THEN "not editable" ELSE quota])]
                /\ UNCHANGED <<registry, disk>>
           ELSE /\ disk' = [disk EXCEPT ![op.space][op.path] = File(newSize, <<>>)]
                /\ registry' = updateStaticSpaceUsage(op.space,
                                    Max(0, op.usedSnap + (newSize - oldSize)))
                /\ ops' = [ops EXCEPT ![o] =
                             DoneOp(op, [success |-> TRUE, message |-> NoMessage])]
    /\ lastPoll' = NoPoll
    /\ UNCHANGED <<restVars, uploads, maxSpaceBytes, maxTotalBytes, tasks, jobs>>

\* The rest of the item DELETE: size the target, remove it, record the usage
\* read at the start less the size, clamped at 0.
\* A faulty variant of DeleteCommit that measures the target after removing
\* it.
DeleteCommitMeasuresAfter(o) ==
    /\ ops[o].pc = "started" /\ ops[o].kind = "delete"
    /\ LET op == ops[o]
       IN  IF getDirectorySizeThrows(op.space, op.path)
           THEN /\ ops' = [ops EXCEPT ![o] =
                             DoneOp(op, [success |-> FALSE, message |-> "ENOENT"])]
                /\ UNCHANGED <<registry, disk>>
           ELSE /\ disk' = [disk EXCEPT ![op.space] =
                               [p \in Paths |-> IF op.path \in {RootDir, p} THEN NoFile
                                                 ELSE disk[op.space][p]]]
                /\ registry' = updateStaticSpaceUsage(op.space, Max(0, op.usedSnap - 0))
                /\ ops' = [ops EXCEPT ![o] =
                             DoneOp(op, [success |-> TRUE, message |-> NoMessage])]
    /\ lastPoll' = NoPoll
    /\ UNCHANGED <<restVars, uploads, maxSpaceBytes, maxTotalBytes, tasks, jobs>>

DeleteCommit(o) ==
    /\ ops[o].pc = "started" /\ ops[o].kind = "delete"
    /\ LET op == ops[o]
       IN  IF getDirectorySizeThrows(op.space, op.path)
           THEN /\ ops' = [ops EXCEPT ![o] =
                             DoneOp(op, [success |-> FALSE, message |-> "ENOENT"])]
                /\ UNCHANGED <<registry, disk>>
           ELSE /\ disk' = [disk EXCEPT ![op.space] =
                               [p \in Paths |-> IF op.path \in {RootDir, p} THEN NoFile
                                                 ELSE disk[op.space][p]]]
                /\ registry' = updateStaticSpaceUsage(op.space,
                                    Max(0, op.usedSnap - getDirectorySize(op.space, op.path)))
                /\ ops' = [ops EXCEPT ![o] =
                             DoneOp(op, [success |-> TRUE, message |-> NoMessage])]
    /\ lastPoll' = NoPoll
    /\ UNCHANGED <<restVars, uploads, maxSpaceBytes, maxTotalBytes, tasks, jobs>>

\* GET /api/static/tasks/:taskId by an authenticated account.
PollTask(who, id) ==
    /\ lastPoll' = [who |-> who, id |-> id, known |-> id \in DOMAIN tasks,
                    resp |-> TaskRoute(id, who)]
    /\ UNCHANGED <<restVars, uploads, ops, maxSpaceBytes, maxTotalBytes, registry, disk, tasks, jobs>>

\* ============================================================= path sandbox
\* String.prototype.startsWith.
startsWith(str, prefix) ==
    Len(str) >= Len(prefix) /\ SubSeq(str, 1, Len(prefix)) = prefix

\* A faulty variant of ReplaceBackslashes that leaves the backslashes in place.
ReplaceBackslashesKeep(str) == str

\* requestPath.replace(/\\/g, '/')
ReplaceBackslashes(str) ==
    [i \in DOMAIN str |-> IF str[i] = "\\" THEN "/" ELSE str[i]]

\* str.replace(/^\/+/, '')
RECURSIVE StripLeadingSlashes(_)
StripLeadingSlashes(str) ==
    IF str # <<>> /\ Head(str) = "/" THEN StripLeadingSlashes(Tail(str)) ELSE str

\* str.split('/'): the segments between slashes, empty ones included.
RECURSIVE SplitSlash(_, _)
SplitSlash(str, cur) ==
    IF str = <<>> THEN <<cur>>
    ELSE IF Head(str) = "/" THEN <<cur>> \o SplitSlash(Tail(str), <<>>)
    ELSE SplitSlash(Tail(str), Append(cur, Head(str)))

\* Path normalisation of an absolute path's segments: '' and '.' are dropped,
\* '..' removes the segment before it and is dropped at the filesystem root.
RECURSIVE NormalizeSegments(_, _)
NormalizeSegments(segs, stack) ==
    IF segs = <<>> THEN stack
    ELSE LET seg == Head(segs)
         IN  IF seg = <<>> \/ seg = <<".">> THEN NormalizeSegments(Tail(segs), stack)
             ELSE IF seg = <<".", ".">>
             THEN NormalizeSegments(Tail(segs),
                                    IF stack = <<>> THEN stack
                                    ELSE SubSeq(stack, 1, Len(stack) - 1))
             ELSE NormalizeSegments(Tail(segs), Append(stack, seg))

RECURSIVE JoinSlash(_)
JoinSlash(segs) ==
    IF segs = <<>> THEN <<>> ELSE <<"/">> \o Head(segs) \o JoinSlash(Tail(segs))

\* path.resolve(root, rel) for an absolute root and a rel without leading '/'.
pathResolve(root, rel) ==
    LET segs == NormalizeSegments(SplitSlash(root \o <<"/">> \o rel, <<>>), <<>>)
    IN  IF segs = <<>> THEN <<"/">> ELSE JoinSlash(segs)

\* safeResolve: the target, or threw = TRUE for the illegal-path error.
safeResolve(spaceRoot, requestPath) ==
    LET normalized == StripLeadingSlashes(ReplaceBackslashes(requestPath))
        target == pathResolve(spaceRoot, normalized)
    IN  IF ~startsWith(target, spaceRoot) THEN [threw |-> TRUE, target |-> <<>>]
        ELSE [threw |-> FALSE, target |-> target]

\* The pieces the request paths of the model are assembled from.
PathTokens ==
    {<<"/">>, <<"\\">>, <<".">>, <<".", ".">>, <<"a">>, <<"s", "1">>, <<"s", "1", "0">>}

\* The directories ensureSpaceRoot yields: rootDir '/d' joined with a space id.
SpaceRoots == {<<"/", "d", "/", "s", "1">>, <<"/", "d", "/", "s", "1", "0">>}

RECURSIVE Flatten(_)
Flatten(seqs) == IF seqs = <<>> THEN <<>> ELSE Head(seqs) \o Flatten(Tail(seqs))

\* Every request path of at most MaxTokens pieces.
RequestPaths ==
    {Flatten(ts) : ts \in UNION {[1..n -> PathTokens] : n \in 0..MaxTokens}}

NoPathOut == [threw |-> FALSE, target |-> <<"?">>]

PathIdle == pathRoot = <<>> /\ pathReq = <<>> /\ pathOut = NoPathOut

NoQuotaIn == [sizeDelta |-> 0, spaceUsed |-> 0, userUsed |-> 0]

NoQuotaOut == [result |-> "none", usedBytes |-> 0]

QuotaIdle == quotaIn = NoQuotaIn /\ quotaOut = NoQuotaOut

\* No domain-pattern function is being called.
NoBinding == [spaceId |-> "none", owner |-> "nobody", domain |-> <<>>]

NoFnIn == [fn |-> "none", host |-> <<>>, a |-> <<>>, b |-> <<>>, bindings |-> <<>>]

NoFnOut == [returned |-> FALSE, bool |-> FALSE, binding |-> NoBinding]

FnIdle == fnIn = NoFnIn /\ fnOut = NoFnOut

\* No public request is being answered.
NoPubReq ==
    [host |-> <<>>, method |-> "none", pathname |-> "none", matched |-> FALSE,
     nextCalls |-> 0, nextThrew |-> FALSE, statusSet |-> 0, bodySet |-> "none",
     fileStats |-> 0, fileReads |-> 0]

PubIdle == pubReq = NoPubReq

\* A space-level request slot not yet used.
NoSpaceReq ==
    [pc |-> "free", route |-> "none", who |-> "nobody", space |-> "none",
     resp |-> JsonError(NoMessage)]

SpacesIdle == spaceReqs = [r \in 1..MaxSpaceReqs |-> NoSpaceReq]

\* A getBindings call not yet made.
NoLookup == [pc |-> "free", loaded |-> {}, fromCache |-> FALSE, result |-> {}]

TtlIdle == now = 0 /\ lookups = [l \in 1..MaxLookups |-> NoLookup]

\* =========================================================== domain patterns
\* String.prototype.endsWith.
endsWith(str, suffix) ==
    Len(str) >= Len(suffix)
        /\ SubSeq(str, Len(str) - Len(suffix) + 1, Len(str)) = suffix

\* toLowerCase on the letters of the model's alphabet.
LowerChar(ch) ==
    IF ch = "E" THEN "e" ELSE IF ch = "F" THEN "f"
    ELSE IF ch = "M" THEN "m" ELSE IF ch = "D" THEN "d" ELSE ch

RECURSIVE TrimLeft(_)
TrimLeft(str) == IF str # <<>> /\ Head(str) = " " THEN TrimLeft(Tail(str)) ELSE str

RECURSIVE TrimRight(_)
TrimRight(str) ==
    IF str # <<>> /\ str[Len(str)] = " " THEN TrimRight(SubSeq(str, 1, Len(str) - 1))
    ELSE str

\* normalizeDomain: trim, then lower-case.
normalizeDomain(input) ==
    LET trimmed == TrimRight(TrimLeft(input))
    IN  [i \in DOMAIN trimmed |-> LowerChar(trimmed[i])]

includes(str, ch) == \E i \in DOMAIN str : str[i] = ch

\* parseDomain: the parsed pattern, or ok = FALSE when it throws.
parseDomain(input) ==
    LET domain == normalizeDomain(input)
        bad == [ok |-> FALSE, domain |-> domain, wildcard |-> FALSE, base |-> <<>>]
    IN  IF domain = <<>> THEN bad
        ELSE IF includes(domain, "/") THEN bad
        ELSE IF startsWith(domain, <<"*", ".">>)
        THEN LET base == SubSeq(domain, 3, Len(domain))
             IN  IF base = <<>> \/ includes(base, "*") THEN bad
                 ELSE [ok |-> TRUE, domain |-> domain, wildcard |-> TRUE, base |-> base]
        ELSE IF includes(domain, "*") THEN bad
        ELSE [ok |-> TRUE, domain |-> domain, wildcard |-> FALSE, base |-> domain]

wildcardIntersects(baseA, baseB) ==
    \/ baseA = baseB
    \/ endsWith(baseA, <<".">> \o baseB)
    \/ endsWith(baseB, <<".">> \o baseA)

\* A faulty variant of domainIntersects in which a wildcard covers its own apex.
domainIntersectsApex(a, b) ==
    LET pa == parseDomain(a)
        pb == parseDomain(b)
        wildcard == IF pa.wildcard THEN pa ELSE pb
        exact == IF pa.wildcard THEN pb ELSE pa
    IN  IF ~pa.wildcard /\ ~pb.wildcard THEN pa.base = pb.base
        ELSE IF pa.wildcard /\ pb.wildcard THEN wildcardIntersects(pa.base, pb.base)
        ELSE IF exact.base = wildcard.base THEN TRUE
        ELSE endsWith(exact.base, <<".">> \o wildcard.base)

\* A faulty variant of domainIntersects that takes its first argument for the
\* wildcard whenever exactly one of the two is a wildcard.
domainIntersectsOneWay(a, b) ==
    LET pa == parseDomain(a)
        pb == parseDomain(b)
    IN  IF ~pa.wildcard /\ ~pb.wildcard THEN pa.base = pb.base
        ELSE IF pa.wildcard /\ pb.wildcard THEN wildcardIntersects(pa.base, pb.base)
        ELSE IF pb.base = pa.base THEN FALSE
        ELSE endsWith(pb.base, <<".">> \o pa.base)

\* domainIntersects on two well-formed patterns.
domainIntersects(a, b) ==
    LET pa == parseDomain(a)
        pb == parseDomain(b)
        wildcard == IF pa.wildcard THEN pa ELSE pb
        exact == IF pa.wildcard THEN pb ELSE pa
    IN  IF ~pa.wildcard /\ ~pb.wildcard THEN pa.base = pb.base
        ELSE IF pa.wildcard /\ pb.wildcard THEN wildcardIntersects(pa.base, pb.base)
        ELSE IF exact.base = wildcard.base THEN FALSE
        ELSE endsWith(exact.base, <<".">> \o wildcard.base)

\* A faulty variant of matchesDomain whose suffix test forgets the dot.
matchesDomainNoDot(host, domain) ==
    LET parsed == parseDomain(domain)
    IN  IF ~parsed.wildcard THEN host = parsed.base
        ELSE IF host = parsed.base THEN FALSE
        ELSE endsWith(host, parsed.base)

\* matchesDomain on a well-formed pattern.
matchesDomain(host, domain) ==
    LET parsed == parseDomain(domain)
    IN  IF ~parsed.wildcard THEN host = parsed.base
        ELSE IF host = parsed.base THEN FALSE
        ELSE endsWith(host, <<".">> \o parsed.base)

\* The loop of resolveSpaceByHost: the best binding so far and its score.
RECURSIVE resolveScan(_, _, _, _)
resolveScan(bindings, host, best, bestScore) ==
    IF bindings = <<>> THEN best
    ELSE LET binding == Head(bindings)
             score == Len(binding.domain)
         IN  IF matchesDomain(host, binding.domain) /\ score > bestScore
             THEN resolveScan(Tail(bindings), host, binding, score)
             ELSE resolveScan(Tail(bindings), host, best, bestScore)

\* A faulty variant of resolveSpaceByHost that keeps the last match.
resolveSpaceByHostLast(bindings, host) ==
    LET matching == SelectSeq(bindings, LAMBDA binding : matchesDomain(host, binding.domain))
    IN  IF matching = <<>> THEN NoBinding ELSE matching[Len(matching)]

\* resolveSpaceByHost over the bindings getBindings gave: NoBinding stands for
\* undefined.
resolveSpaceByHost(bindings, host) == resolveScan(bindings, host, NoBinding, -1)

\* config.server.userHosts and devHosts, lower-cased: the host 'd.c'.
reservedHosts == {<<"d", ".", "c">>}

\* listAllStaticSpaces flattened as refreshBindings flattens it.
BindingsOf(reg) ==
    UNION {{[spaceId |-> sp, owner |-> reg[sp].owner, domain |-> d] :
                d \in reg[sp].domains} : sp \in DOMAIN reg}

updateStaticSpaceDomains(id, domains) ==
    IF id \notin DOMAIN registry THEN registry
    ELSE [registry EXCEPT ![id].domains = domains]

NoDomainResp ==
    [method |-> "none", space |-> "none", domain |-> <<>>, resp |-> JsonError(NoMessage)]

NoDomReq ==
    [pc |-> "free", method |-> "none", space |-> "none", input |-> <<>>,
     domain |-> <<>>, snap |-> {}, updated |-> {}, loaded |-> {}]

\* A request that has been answered: its locals are gone.
DoneDomReq == [NoDomReq EXCEPT !.pc = "done"]

NoCache == [loaded |-> FALSE, bindings |-> {}, loadedAt |-> 0]

DomainIdle ==
    /\ cache = NoCache
    /\ domReqs = [i \in 1..MaxDomainReqs |-> NoDomReq]
    /\ domainResp = NoDomainResp

DomainResponse(req, resp) ==
    [method |-> req.method, space |-> req.space, domain |-> req.domain, resp |-> resp]

\* The POST branch's scan of every other space's patterns.
otherSpaceIntersects(existingAll, spaceId, domain) ==
    \E other \in DOMAIN existingAll :
        /\ other # spaceId
        /\ \E otherDomain \in existingAll[other].domains :
                domainIntersects(domain, otherDomain)

\* A faulty variant of reservedIntersects that scans nothing.
reservedIntersectsNone(domain) == FALSE

\* The reserved-host scan.
reservedIntersects(domain) ==
    \E reserved \in reservedHosts : domainIntersects(domain, reserved)

\* The domains route up to its first await on the request body: the account
\* is authenticated and the space looked up by id and owner.
DomainStart(slot, who, spaceId, method, input) ==
    /\ domReqs[slot].pc = "free"
    /\ \A i \in 1..(slot - 1) : domReqs[i].pc # "free"
    /\ IF spaceId \notin DOMAIN registry \/ registry[spaceId].owner # who
       THEN /\ domainResp' = [method |-> method, space |-> spaceId, domain |-> <<>>,
                              resp |-> JsonError("space not found")]
            /\ UNCHANGED domReqs
       ELSE /\ domReqs' = [domReqs EXCEPT ![slot] =
                            [NoDomReq EXCEPT !.pc = "check", !.method = method,
                                             !.space = spaceId, !.input = input,
                                             !.snap = registry[spaceId].domains]]
            /\ domainResp' = NoDomainResp
    /\ UNCHANGED <<maxSpaceBytes, maxTotalBytes, registry, disk, tasks, jobs, uploads, ops,
                   lastPoll, pathVars, quotaVars, fnVars, pubReq, spaceReqs, cache, ttlVars>>

\* The route from parseDomain to the call of updateStaticSpaceDomains: the
\* pattern is parsed, every space is listed, the reserved hosts and (for POST)
\* the other spaces' patterns are scanned, and the new domain list is built
\* from the space record read at the start.  Any throw is answered by jsonGuard.
DomainCheck(slot) ==
    /\ domReqs[slot].pc = "check"
    /\ LET req == domReqs[slot]
           parsed == parseDomain(req.input)
           domain == parsed.domain
           existingAll == registry
           answered == [req EXCEPT !.domain = domain]
           fail(message) ==
               /\ domainResp' = DomainResponse(answered, JsonError(message))
               /\ domReqs' = [domReqs EXCEPT ![slot] = DoneDomReq]
       IN  IF ~parsed.ok THEN fail("malformed domain")
           ELSE IF reservedIntersects(domain) THEN fail("conflicts with a system domain")
           ELSE IF req.method = "POST" /\ otherSpaceIntersects(existingAll, req.space, domain)
           THEN fail("domain taken")
           ELSE /\ domReqs' = [domReqs EXCEPT ![slot] =
                                [NoDomReq EXCEPT !.pc = "write", !.method = req.method,
                                     !.space = req.space, !.domain = domain,
                                     !.updated = IF req.method = "POST"
                                                 THEN req.snap \cup {domain}
                                                 ELSE req.snap \ {domain}]]
                /\ domainResp' = NoDomainResp
    /\ UNCHANGED <<maxSpaceBytes, maxTotalBytes, registry, disk, tasks, jobs, uploads, ops,
                   lastPoll, pathVars, quotaVars, fnVars, pubReq, spaceReqs, cache, ttlVars>>

\* updateStaticSpaceDomains completes.
DomainWrite(slot) ==
    /\ domReqs[slot].pc = "write"
    /\ registry' = updateStaticSpaceDomains(domReqs[slot].space, domReqs[slot].updated)
    /\ domReqs' = [domReqs EXCEPT ![slot].pc = "load"]
    /\ domainResp' = NoDomainResp
    /\ UNCHANGED <<maxSpaceBytes, maxTotalBytes, disk, tasks, jobs, uploads, ops,
                   lastPoll, pathVars, quotaVars, fnVars, pubReq, spaceReqs, cache, ttlVars>>

\* refreshBindings: listAllStaticSpaces completes.
DomainLoad(slot) ==
    /\ domReqs[slot].pc = "load"
    /\ domReqs' = [domReqs EXCEPT ![slot].pc = "store",
                                  ![slot].loaded = BindingsOf(registry)]
    /\ domainResp' = NoDomainResp
    /\ UNCHANGED <<maxSpaceBytes, maxTotalBytes, registry, disk, tasks, jobs, uploads, ops,
                   lastPoll, pathVars, quotaVars, fnVars, pubReq, spaceReqs, cache, ttlVars>>

\* refreshBindings replaces the cache; the route answers with the new list.
DomainStore(slot) ==
    /\ domReqs[slot].pc = "store"
    /\ cache' = [loaded |-> TRUE, bindings |-> domReqs[slot].loaded, loadedAt |-> now]
    /\ domainResp' = DomainResponse(domReqs[slot], JsonOk(domReqs[slot].updated))
    /\ domReqs' = [domReqs EXCEPT ![slot] = DoneDomReq]
    /\ UNCHANGED <<maxSpaceBytes, maxTotalBytes, registry, disk, tasks, jobs, uploads, ops,
                   lastPoll, pathVars, quotaVars, fnVars, pubReq, spaceReqs, ttlVars>>

\* ===================================================== the task engine alone
PollIds == 0..MaxTasks

\* One file already uploaded to s1, as an upload of one byte leaves it.
InitTask ==
    /\ maxSpaceBytes = MaxSize
    /\ maxTotalBytes = MaxSize + 1
    /\ registry = [s \in SpaceIds |->
                     [owner |-> IF s = "s1" THEN "alice" ELSE "bob", domains |-> {},
                      usedBytes |-> IF s = "s1" THEN 1 ELSE 0]]
    /\ disk = [s \in SpaceIds |-> [p \in Paths |->
                     IF s = "s1" /\ p = "a.txt" THEN File(1, <<>>) ELSE NoFile]]
    /\ tasks = <<>>
    /\ jobs = <<>>
    /\ uploads = [u \in 1..MaxUploads |-> NoUpload]
    /\ ops = [o \in 1..MaxOps |-> NoOp]
    /\ lastPoll = NoPoll
    /\ PathIdle
    /\ DomainIdle
    /\ QuotaIdle
    /\ FnIdle
    /\ PubIdle
    /\ SpacesIdle
    /\ TtlIdle

NextTask ==
    \/ \E who \in Accounts, space \in SpaceIds, sel \in SUBSET (Paths \cup {RootDir}) :
            ZipRequest(who, space, sel, "z.zip")
    \/ \E id \in TaskIds : ZipCollect(id)
    \/ \E id \in TaskIds, processed \in 0..MaxBytes, total \in 0..MaxBytes :
            ZipProgress(id, processed, total)
    \/ \E id \in TaskIds : ZipArchiveError(id)
    \/ \E id \in TaskIds : ZipFinalizeReject(id)
    \/ \E id \in TaskIds, size \in 1..MaxSize : ZipFinalize(id, size)
    \/ \E id \in TaskIds, size \in 1..MaxSize : ZipCloseUnheard(id, size)
    \/ \E id \in TaskIds : ZipComplete(id)
    \/ \E who \in Accounts, id \in PollIds : PollTask(who, id)

SpecTask == InitTask /\ [][NextTask]_vars

\* C1: a task's status only ever changes running->done or running->failed;
\* once it is done or failed no later event of the job changes it again.
TaskStatusOnlyForward ==
    [][\A id \in DOMAIN tasks :
          tasks'[id].status # tasks[id].status
              => tasks[id].status = "running" /\ tasks'[id].status \in {"done", "failed"}]_vars

\* C9: a poll by a tenant who does not own the task gets exactly the
\* task-not-found response that a poll of a never-created id gets, and only the
\* owner's poll carries the task's status, progress or message.
TaskPollScopedToOwner ==
    lastPoll # NoPoll =>
        /\ (\/ ~lastPoll.known
            \/ tasks[lastPoll.id].owner # lastPoll.who)
                => lastPoll.resp = JsonError("task not found")
        /\ lastPoll.resp.data # undefined
                => lastPoll.known /\ tasks[lastPoll.id].owner = lastPoll.who

\* C9 witness: a tenant polled another tenant's finished task.
ForeignPollOfDoneTask ==
    /\ lastPoll.known
    /\ tasks[lastPoll.id].owner # lastPoll.who
    /\ tasks[lastPoll.id].status = "done"
    /\ lastPoll.resp.success = FALSE

\* C10: while a zip task is running its progress never decreases, and a task
\* whose status is done has progress exactly 100.
ZipProgressMonotone ==
    /\ [][\A id \in DOMAIN tasks :
            (tasks[id].status = "running" /\ tasks'[id].status = "running")
                => tasks'[id].progress >= tasks[id].progress]_vars
    /\ [](\A id \in DOMAIN tasks : tasks[id].status = "done" => tasks[id].progress = 100)

\* ==================================================== the path sandbox alone
StorageIdle ==
    /\ maxSpaceBytes = MaxSize
    /\ maxTotalBytes = MaxSize + 1
    /\ registry = [s \in SpaceIds |->
                     [owner |-> IF s = "s1" THEN "alice" ELSE "bob", domains |-> {},
                      usedBytes |-> 0]]
    /\ disk = [s \in SpaceIds |-> [p \in Paths |-> NoFile]]
    /\ tasks = <<>>
    /\ jobs = <<>>
    /\ uploads = [u \in 1..MaxUploads |-> NoUpload]
    /\ ops = [o \in 1..MaxOps |-> NoOp]
    /\ lastPoll = NoPoll

InitPath ==
    /\ StorageIdle
    /\ DomainIdle
    /\ QuotaIdle
    /\ FnIdle
    /\ PubIdle
    /\ SpacesIdle
    /\ TtlIdle
    /\ pathRoot \in SpaceRoots
    /\ pathReq \in RequestPaths
    /\ pathOut = NoPathOut

\* The call safeResolve(pathRoot, pathReq).
PathResolve ==
    /\ pathOut = NoPathOut
    /\ pathOut' = safeResolve(pathRoot, pathReq)
    /\ UNCHANGED <<maxSpaceBytes, maxTotalBytes, registry, disk, tasks, jobs, uploads, ops,
                   lastPoll, pathRoot, pathReq, domainVars, quotaVars, fnVars,
                   pubReq, spaceReqs, ttlVars>>

NextPath == PathResolve

SpecPath == InitPath /\ [][NextPath]_vars

\* C2: safeResolve either throws or returns the root itself or a path below
\* the root directory; never a path outside it, such as a sibling directory
\* whose name starts with the root's name.
SafeResolveStaysInRoot ==
    (pathOut # NoPathOut /\ ~pathOut.threw) =>
        \/ pathOut.target = pathRoot
        \/ startsWith(pathOut.target, pathRoot \o <<"/">>)

\* The request path as the claim reads it: backslashes turned into '/', leading
\* slashes stripped, split at '/'.
RelSegments(requestPath) ==
    SplitSlash(StripLeadingSlashes([i \in DOMAIN requestPath |->
                   IF requestPath[i] = "\\" THEN "/" ELSE requestPath[i]]), <<>>)

\* No '..' of the segments climbs above the directory the path starts in.
RECURSIVE NeverClimbs(_, _)
NeverClimbs(segs, depth) ==
    IF segs = <<>> THEN TRUE
    ELSE IF Head(segs) = <<>> \/ Head(segs) = <<".">> THEN NeverClimbs(Tail(segs), depth)
    ELSE IF Head(segs) = <<".", ".">>
    THEN depth > 0 /\ NeverClimbs(Tail(segs), depth - 1)
    ELSE NeverClimbs(Tail(segs), depth + 1)

\* The segments with '.' and '..' collapsed, for segments that never climb.
RECURSIVE Collapsed(_)
Collapsed(segs) ==
    IF segs = <<>> THEN <<>>
    ELSE LET init == Collapsed(SubSeq(segs, 1, Len(segs) - 1))
             last == segs[Len(segs)]
         IN  IF last = <<>> \/ last = <<".">> THEN init
             ELSE IF last = <<".", ".">> THEN SubSeq(init, 1, Len(init) - 1)
             ELSE Append(init, last)

\* The request path begins with '../..' as a pair of whole segments.
ClimbsTwice(requestPath) ==
    /\ startsWith(requestPath, <<".", ".", "/", ".", ".">>)
    /\ Len(requestPath) = 5 \/ requestPath[6] = "/"

DomainInputs ==
    {<<"*", ".", "e", ".", "c">>, <<" ", "F", ".", "e", ".", "c">>, <<"e", ".", "c">>,
     <<"d", ".", "c">>, <<>>}

InitDomain ==
    StorageIdle /\ PathIdle /\ DomainIdle /\ QuotaIdle /\ FnIdle /\ PubIdle /\ SpacesIdle
    /\ TtlIdle

NextDomain ==
    \/ \E slot \in 1..MaxDomainReqs, who \in Accounts, spaceId \in SpaceIds,
          method \in {"POST", "DELETE"}, input \in DomainInputs :
            DomainStart(slot, who, spaceId, method, input)
    \/ \E slot \in 1..MaxDomainReqs : DomainCheck(slot)
    \/ \E slot \in 1..MaxDomainReqs : DomainWrite(slot)
    \/ \E slot \in 1..MaxDomainReqs : DomainLoad(slot)
    \/ \E slot \in 1..MaxDomainReqs : DomainStore(slot)

SpecDomain == InitDomain /\ [][NextDomain]_vars

\* C4: no pattern bound to one space intersects a pattern bound to another.
NoCrossSpaceIntersection ==
    \A sa \in DOMAIN registry, sb \in DOMAIN registry :
        sa # sb => \A a \in registry[sa].domains, b \in registry[sb].domains :
                        ~domainIntersects(a, b)

WildcardEC == <<"*", ".", "e", ".", "c">>

SubEC == <<"f", ".", "e", ".", "c">>

ApexEC == <<"e", ".", "c">>

\* The step in which bind request i scans the registry it has just listed.
BindScans(i) ==
    /\ domReqs[i].pc = "check" /\ domReqs[i].method = "POST"
    /\ domReqs'[i].pc # "check"
    /\ parseDomain(domReqs[i].input).ok

BindRejected(i) ==
    /\ domReqs'[i].pc = "done"
    /\ domainResp'.resp.status = 400 /\ ~domainResp'.resp.success
    /\ registry' = registry

BindAccepted(i) ==
    /\ domReqs'[i].pc = "write"
    /\ parseDomain(domReqs[i].input).domain \in domReqs'[i].updated

\* The steps by which an accepted bind request adds its pattern and answers.
BindCompletes(i) ==
    /\ (domReqs[i].pc = "write" /\ domReqs'[i].pc # "write")
            => /\ registry'[domReqs[i].space].domains = domReqs[i].updated
               /\ \A sp \in DOMAIN registry \ {domReqs[i].space} :
                        registry'[sp].domains = registry[sp].domains
    /\ (domReqs[i].pc = "store" /\ domReqs'[i].pc # "store")
            => domainResp'.resp.success /\ domainResp'.resp.data = domReqs[i].updated

NoReservedPatternBound ==
    \A sp \in DOMAIN registry : \A d \in registry[sp].domains :
        \A reserved \in reservedHosts : ~domainIntersects(d, reserved)

\* C26: in every reachable state no space has a bound pattern that intersects
\* a reserved system hostname, and a bind request for a well-formed pattern
\* that intersects one is answered with a validation error and changes no
\* domain set.
ReservedHostsNeverBound ==
    /\ []NoReservedPatternBound
    /\ [][\A i \in 1..MaxDomainReqs :
            (BindScans(i)
               /\ \E reserved \in reservedHosts :
                     domainIntersects(parseDomain(domReqs[i].input).domain, reserved))
                => BindRejected(i)]_vars

\* C26 witness: a bind of the reserved host 'd.c' has been refused.
ReservedBindRefused ==
    /\ domainResp.method = "POST" /\ domainResp.domain = <<"d", ".", "c">>
    /\ domainResp.resp = JsonError("conflicts with a system domain")
    /\ NoReservedPatternBound

\* ================================================== the quota enforcer alone
\* Ceilings, recorded usages and deltas around the ceiling of 100 bytes; the
\* owner's usage includes the space's.
QuotaCeilings == {100, 150}

QuotaUsages == {0, 90, 100, 120, 160}

QuotaDeltas == {-20, -10, -1, 0, 1, 10, 20}

InitQuota ==
    /\ maxSpaceBytes = 100
    /\ maxTotalBytes \in QuotaCeilings
    /\ registry = [s \in SpaceIds |->
                     [owner |-> IF s = "s1" THEN "alice" ELSE "bob", domains |-> {},
                      usedBytes |-> 0]]
    /\ disk = [s \in SpaceIds |-> [p \in Paths |-> NoFile]]
    /\ tasks = <<>>
    /\ jobs = <<>>
    /\ uploads = [u \in 1..MaxUploads |-> NoUpload]
    /\ ops = [o \in 1..MaxOps |-> NoOp]
    /\ lastPoll = NoPoll
    /\ PathIdle
    /\ DomainIdle
    /\ quotaIn \in [sizeDelta : QuotaDeltas, spaceUsed : QuotaUsages, userUsed : QuotaUsages]
    /\ quotaIn.userUsed >= quotaIn.spaceUsed
    /\ quotaOut = NoQuotaOut
    /\ FnIdle
    /\ PubIdle
    /\ SpacesIdle
    /\ TtlIdle

\* The file POST's quota check and usage update for a write of newSize -
\* oldSize = sizeDelta bytes: ensureWithinLimits, then Math.max(0, used + delta).
QuotaWrite ==
    /\ quotaOut = NoQuotaOut
    /\ LET result == ensureWithinLimits(quotaIn.sizeDelta, quotaIn.spaceUsed, quotaIn.userUsed)
       IN  quotaOut' =
              [result |-> result,
               usedBytes |-> IF result = QuotaOk
                             THEN Max(0, quotaIn.spaceUsed + quotaIn.sizeDelta)
                             ELSE quotaIn.spaceUsed]
    /\ UNCHANGED <<maxSpaceBytes, maxTotalBytes, registry, disk, tasks, jobs, uploads, ops,
                   lastPoll, pathVars, domainVars, quotaIn, fnVars, pubReq, spaceReqs, ttlVars>>

NextQuota == QuotaWrite

SpecQuota == InitQuota /\ [][NextQuota]_vars

\* C7: ensureWithinLimits fails exactly when spaceUsed + delta exceeds the
\* per-space ceiling or ownerUsed + delta exceeds the per-owner ceiling; with
\* ceiling 100 and usage 90, delta 20 fails and delta 10 succeeds, after which
\* the recorded usage is 100.
QuotaFailsExactlyAboveCeiling ==
    quotaOut # NoQuotaOut =>
        /\ quotaOut.result # QuotaOk
              <=> \/ quotaIn.spaceUsed + quotaIn.sizeDelta > maxSpaceBytes
                  \/ quotaIn.userUsed + quotaIn.sizeDelta > maxTotalBytes
        /\ (quotaIn.spaceUsed = 90 /\ quotaIn.userUsed = 90 /\ quotaIn.sizeDelta = 20)
              => quotaOut.result # QuotaOk /\ quotaOut.usedBytes = 90
        /\ (quotaIn.spaceUsed = 90 /\ quotaIn.userUsed = 90 /\ quotaIn.sizeDelta = 10)
              => quotaOut.result = QuotaOk /\ quotaOut.usedBytes = 100

\* C7 witness: usage 90 under ceiling 100, a write of 10 bytes has passed the
\* check and the recorded usage is 100.
QuotaReachedExactly ==
    /\ quotaIn.spaceUsed = 90 /\ quotaIn.userUsed = 90 /\ quotaIn.sizeDelta = 10
    /\ maxTotalBytes = 100
    /\ quotaOut.result = QuotaOk /\ quotaOut.usedBytes = 100

\* C8: an operation whose byte delta is negative always passes the quota
\* check, whatever the recorded space and owner usages are.
NegativeDeltaAlwaysPasses ==
    (quotaOut # NoQuotaOut /\ quotaIn.sizeDelta < 0) => quotaOut.result = QuotaOk

\* ================================================= the storage routes together
\* The archives an upload of z.zip may hold: one empty file a.txt, one file
\* a.txt of MaxSize bytes, a file entry escaping the extraction directory, or
\* an empty a.txt followed by a directory entry escaping it.
ArchiveCatalog ==
    {<<Entry("a.txt", 0)>>, <<Entry("a.txt", MaxSize)>>, <<Entry("../evil", 1)>>,
     <<Entry("a.txt", 0), DirEntry("../evil")>>}

\* One space is registered, alice's s1; it holds one file, as an upload of one
\* byte leaves it.
InitStorage ==
    /\ maxSpaceBytes = MaxSize
    /\ maxTotalBytes = MaxSize + 1
    /\ registry = [s \in {"s1"} |-> [owner |-> "alice", domains |-> {}, usedBytes |-> 1]]
    /\ disk = [s \in SpaceIds |-> [p \in Paths |->
                     IF s = "s1" /\ p = "a.txt" THEN File(1, <<>>) ELSE NoFile]]
    /\ tasks = <<>>
    /\ jobs = <<>>
    /\ uploads = [u \in 1..MaxUploads |-> NoUpload]
    /\ ops = [o \in 1..MaxOps |-> NoOp]
    /\ lastPoll = NoPoll
    /\ PathIdle
    /\ DomainIdle
    /\ QuotaIdle
    /\ FnIdle
    /\ PubIdle
    /\ SpacesIdle
    /\ TtlIdle

NextStorage ==
    \/ \E u \in 1..MaxUploads, who \in Accounts, space \in SpaceIds, path \in Paths :
            UploadStart(u, who, space, path)
    \/ \E u \in 1..MaxUploads : UploadFileUnnamed(u)
    \/ \E u \in 1..MaxUploads : UploadFile(u)
    \/ \E u \in 1..MaxUploads, n \in 1..MaxSize : UploadChunk(u, n)
    \/ \E u \in 1..MaxUploads, n \in 1..MaxSize : UploadChunkAfterAbort(u, n)
    \/ \E u \in 1..MaxUploads : UploadPartEnd(u)
    \/ \E u \in 1..MaxUploads, entries \in ArchiveCatalog \cup {<<>>} :
            UploadStreamEnd(u, entries)
    \/ \E u \in 1..MaxUploads : UploadFilesLimit(u)
    \/ \E u \in 1..MaxUploads : UploadFinish(u)
    \/ \E o \in 1..MaxOps, kind \in {"write", "delete"}, who \in Accounts,
          space \in SpaceIds, path \in Paths \cup {RootDir} :
            OpStart(o, kind, who, space, path)
    \/ \E o \in 1..MaxOps, newSize \in 0..MaxSize : WriteCommit(o, newSize)
    \/ \E o \in 1..MaxOps : DeleteCommit(o)
    \/ \E who \in Accounts, space \in SpaceIds : ZipRequest(who, space, {RootDir}, "z.zip")
    \/ \E id \in TaskIds : ZipCollect(id)
    \/ \E id \in TaskIds : ZipArchiveError(id)
    \/ \E id \in TaskIds : ZipFinalizeReject(id)
    \/ \E id \in TaskIds, size \in 1..MaxSize : ZipFinalize(id, size)
    \/ \E id \in TaskIds, size \in 1..MaxSize : ZipCloseUnheard(id, size)
    \/ \E id \in TaskIds : ZipComplete(id)
    \/ \E who \in Accounts, space \in SpaceIds : UnzipRequest(who, space, "z.zip")
    \/ \E id \in TaskIds : UnzipScan(id)
    \/ \E id \in TaskIds : UnzipEntry(id)
    \/ \E id \in TaskIds : UnzipEntryError(id)
    \/ \E id \in TaskIds : UnzipFinish(id)

SpecStorage == InitStorage /\ [][NextStorage]_vars

\* C3: when an upload's running byte count makes ensureWithinLimits fail, the
\* request is answered with a failure and, once it is answered, no file exists
\* at the target path this request wrote to.  Stated for an upload to a path
\* that held no file, in a run in which nothing else was requested.
AbortedUploadLeavesNoFile ==
    \A u \in 1..MaxUploads :
        (/\ uploads[u].pc = "done"
         /\ uploads[u].resp.message \in QuotaMessages
         /\ ~uploads[u].hadFile
         /\ \A v \in 1..MaxUploads \ {u} : uploads[v].pc = "free"
         /\ \A o \in 1..MaxOps : ops[o].pc = "free"
         /\ tasks = <<>>)
            => /\ ~uploads[u].resp.success
               /\ disk[uploads[u].space][uploads[u].path] = NoFile

\* C18: an upload whose request carried a second file part is answered with a
\* failure, no file written by the request is left at the target path, and the
\* recorded usage of the space is what it was, in whatever order the part's
\* end, the second part, the end of the form and the completion of the write
\* came.  Stated for an upload to z.zip, where no file was, in a run in which
\* nothing else was requested.
SecondFilePartLeavesNothing ==
    \A u \in 1..MaxUploads :
        (/\ uploads[u].pc = "done"
         /\ uploads[u].resp.message = "only one file per upload"
         /\ uploads[u].path = "z.zip"
         /\ \A v \in 1..MaxUploads \ {u} : uploads[v].pc = "free"
         /\ \A o \in 1..MaxOps : ops[o].pc = "free"
         /\ tasks = <<>>)
            => /\ ~uploads[u].resp.success
               /\ disk[uploads[u].space][uploads[u].path] = NoFile
               /\ registry[uploads[u].space].usedBytes = 1

\* C18 witness: an upload to the absent path z.zip has been refused for its
\* second file part.
SecondFilePartRefused ==
    \E u \in 1..MaxUploads :
        /\ uploads[u].pc = "done" /\ uploads[u].path = "z.zip" /\ ~uploads[u].hadFile
        /\ uploads[u].resp = [success |-> FALSE, message |-> "only one file per upload"]

\* C19: the step in which an upload answers success sets the recorded usage of
\* its space to max(0, usage at request start + bytes received - size of the
\* regular file that was at the target), and is taken only once the whole file
\* has been written.
UploadSuccessRecordsMeasuredDelta ==
    [][\A u \in 1..MaxUploads :
          (uploads[u].pc # "done" /\ uploads'[u].pc = "done" /\ uploads'[u].resp.success) =>
              /\ registry'[uploads[u].space].usedBytes =
                    Max(0, uploads[u].usedSnap + uploads[u].uploadedBytes - uploads[u].oldSize)
              /\ uploads[u].writtenFile]_vars

\* C19 witness: an upload that replaced the 1-byte a.txt has answered success
\* and the space's usage has changed.
ReplacingUploadSucceeded ==
    \E u \in 1..MaxUploads :
        /\ uploads[u].pc = "done" /\ uploads[u].resp.success
        /\ uploads[u].path = "a.txt" /\ uploads[u].hadFile
        /\ registry["s1"].usedBytes = 2

\* C6: the recorded used-bytes counter of every space is never negative.
UsedBytesNonNegative ==
    \A s \in DOMAIN registry : registry[s].usedBytes >= 0

\* ================================================ the background jobs alone
\* alice's s1 holds a.txt and an uploaded archive z.zip, each of one byte and
\* both counted; bob's s2 is empty.  The space ceiling is reached or one byte
\* away.
InitJobs ==
    /\ maxSpaceBytes \in {MaxSize, MaxSize + 1}
    /\ maxTotalBytes = MaxSize + 1
    /\ registry = [s \in SpaceIds |->
                     [owner |-> IF s = "s1" THEN "alice" ELSE "bob", domains |-> {},
                      usedBytes |-> IF s = "s1" THEN 2 ELSE 0]]
    /\ \E entries \in ArchiveCatalog :
          disk = [s \in SpaceIds |-> [p \in Paths |->
                     IF s # "s1" THEN NoFile
                     ELSE IF p = "a.txt" THEN File(1, <<>>) ELSE File(1, entries)]]
    /\ tasks = <<>>
    /\ jobs = <<>>
    /\ uploads = [u \in 1..MaxUploads |-> NoUpload]
    /\ ops = [o \in 1..MaxOps |-> NoOp]
    /\ lastPoll = NoPoll
    /\ PathIdle
    /\ DomainIdle
    /\ QuotaIdle
    /\ FnIdle
    /\ PubIdle
    /\ SpacesIdle
    /\ TtlIdle

NextJobs ==
    \/ \E who \in Accounts, space \in SpaceIds, sel \in {{"a.txt"}, {RootDir}} :
            ZipRequest(who, space, sel, "z.zip")
    \/ \E id \in TaskIds : ZipCollect(id)
    \/ \E id \in TaskIds, processed \in 0..MaxBytes, total \in 0..MaxBytes :
            ZipProgress(id, processed, total)
    \/ \E id \in TaskIds : ZipArchiveError(id)
    \/ \E id \in TaskIds : ZipFinalizeReject(id)
    \/ \E id \in TaskIds, size \in 1..MaxSize : ZipFinalize(id, size)
    \/ \E id \in TaskIds, size \in 1..MaxSize : ZipCloseUnheard(id, size)
    \/ \E id \in TaskIds : ZipComplete(id)
    \/ \E who \in Accounts, space \in SpaceIds : UnzipRequest(who, space, "z.zip")
    \/ \E id \in TaskIds : UnzipScan(id)
    \/ \E id \in TaskIds : UnzipEntry(id)
    \/ \E id \in TaskIds : UnzipEntryError(id)
    \/ \E id \in TaskIds : UnzipFinish(id)

SpecJobs == InitJobs /\ [][NextJobs]_vars

UnzipQuotaFailureWritesNothing ==
    [][\A id \in DOMAIN jobs :
          (/\ jobs[id].kind = "unzip"
           /\ tasks[id].status # "failed" /\ tasks'[id].status = "failed"
           /\ tasks'[id].message \in QuotaMessages)
              => /\ jobs[id].pc = "open" /\ jobs[id].next = 1 /\ jobs[id].processed = 0
                 /\ jobs'[id].pc = "end"
                 /\ disk' = disk
                 /\ registry' = registry]_vars

\* C20 witness: an unzip of an archive holding a 2-byte a.txt has failed on the
\* quota; a.txt is still the 1-byte file and the usage is still 2.
UnzipRefusedBeforeExtraction ==
    \E id \in DOMAIN jobs :
        /\ jobs[id].kind = "unzip" /\ tasks[id].status = "failed"
        /\ tasks[id].message \in QuotaMessages
        /\ disk["s1"]["a.txt"] = File(1, <<>>)
        /\ disk["s1"]["z.zip"] = File(1, <<Entry("a.txt", MaxSize)>>)
        /\ registry["s1"].usedBytes = 2

\* C21: a zip task takes a quota message only once its archive is fully
\* written; when the archive's size exceeds a ceiling the task ends failed with
\* the quota message, the archive stays on disk and the recorded usage is not
\* updated.
ZipQuotaFailureKeepsArchive ==
    [][\A id \in DOMAIN jobs :
          /\ (/\ jobs[id].kind = "zip"
              /\ tasks'[id].message \in QuotaMessages
              /\ tasks'[id] # tasks[id])
                => jobs[id].pc = "written"
          /\ (/\ jobs[id].kind = "zip" /\ jobs[id].pc = "written" /\ jobs'[id].pc = "end"
              /\ disk[jobs[id].space][jobs[id].out] # NoFile
              /\ ensureWithinLimits(disk[jobs[id].space][jobs[id].out].size,
                                    jobs[id].usedSnap, getUserUsage(jobs[id].owner)) # QuotaOk)
                => /\ tasks'[id].status = "failed"
                   /\ tasks'[id].message \in QuotaMessages
                   /\ disk' = disk
                   /\ registry' = registry]_vars

\* C21 witness: a zip task has failed on the quota; its 2-byte archive is on
\* disk and the usage is still 2.
ZipRefusedAfterWriting ==
    \E id \in DOMAIN jobs :
        /\ jobs[id].kind = "zip" /\ jobs[id].pc = "end"
        /\ tasks[id].status = "failed" /\ tasks[id].message \in QuotaMessages
        /\ disk["s1"]["z.zip"].size = MaxSize
        /\ registry["s1"].usedBytes = 2

\* C22: an unzip task that fails on an unsafe entry path, of a file or of a
\* directory, at whatever position in the archive, fails before any entry of
\* the archive has been extracted.
UnsafeEntryFailsBeforeAnyWrite ==
    [][\A id \in DOMAIN jobs :
          (/\ jobs[id].kind = "unzip"
           /\ tasks[id].status # "failed" /\ tasks'[id].status = "failed"
           /\ tasks'[id].message = "unsafe archive path")
              => jobs[id].pc = "open" /\ jobs[id].next = 1]_vars

\* C22 witness: the archive holding only the file entry '../evil' has been
\* refused and a.txt is as it was.
UnsafeFileEntryRefused ==
    \E id \in DOMAIN jobs :
        /\ jobs[id].kind = "unzip" /\ tasks[id].status = "failed"
        /\ tasks[id].message = "unsafe archive path"
        /\ disk["s1"]["z.zip"].entries = <<Entry("../evil", 1)>>
        /\ disk["s1"]["a.txt"] = File(1, <<>>)

\* C23: the net delta an unzip job keeps from its pre-scan is the sum of the
\* uncompressed sizes of the archive's file entries minus the sum of the sizes
\* of the regular files then present at their destinations; the step in which
\* the task becomes done sets the recorded usage to the usage read when the
\* request started plus that delta, and the task's progress to 100.
UnzipDoneRecordsNetDelta ==
    [][\A id \in DOMAIN jobs :
          /\ (jobs[id].kind = "unzip" /\ jobs[id].pc = "open" /\ jobs'[id].pc = "extract")
                => LET entries == disk[jobs[id].space][jobs[id].out].entries
                   IN  jobs'[id].delta =
                          SumEntrySizes(entries) - SumExisting(jobs[id].space, entries)
          /\ (jobs[id].kind = "unzip" /\ tasks[id].status # "done"
                                      /\ tasks'[id].status = "done")
                => /\ registry'[jobs[id].space].usedBytes = jobs[id].usedSnap + jobs[id].delta
                   /\ tasks'[id].progress = 100]_vars

\* C23 witness: an unzip that replaced the 1-byte a.txt by an empty one is done
\* at 100 and the usage has gone from 2 to 1.
UnzipDoneWithNegativeDelta ==
    \E id \in DOMAIN jobs :
        /\ jobs[id].kind = "unzip" /\ tasks[id].status = "done" /\ tasks[id].progress = 100
        /\ disk["s1"]["a.txt"] = File(0, <<>>)
        /\ registry["s1"].usedBytes = 1

UnsafeArchiveAnswered400 ==
    \A id \in DOMAIN jobs :
        (jobs[id].kind = "unzip" /\ tasks[id].message = "unsafe archive path")
            => jobs[id].resp.status = 400 /\ ~jobs[id].resp.success

\* ======================================== the domain-pattern functions alone
\* Hosts as stripPort leaves them: 'e.c', 'f.e.c', 'a.b.e.c', 'xe.c' (ends with
\* 'e.c' but not with '.e.c'), 'c' and the empty host.
PatternHosts ==
    {<<"e", ".", "c">>, <<"f", ".", "e", ".", "c">>,
     <<"a", ".", "b", ".", "e", ".", "c">>, <<"x", "e", ".", "c">>, <<"c">>, <<>>}

\* Patterns as the registry stores them (parseDomain's domain): exact hosts and
\* wildcards over 'c', 'e.c' and 'f.e.c'.
StoredPatterns ==
    {<<"e", ".", "c">>, <<"f", ".", "e", ".", "c">>,
     <<"a", ".", "b", ".", "e", ".", "c">>, <<"x", "e", ".", "c">>,
     <<"*", ".", "c">>, <<"*", ".", "e", ".", "c">>, <<"*", ".", "f", ".", "e", ".", "c">>}

\* The lists refreshBindings builds: the i-th binding belongs to space i.
BindingAt(i, domain) ==
    [spaceId |-> IF i = 1 THEN "s1" ELSE "s2", owner |-> IF i = 1 THEN "alice" ELSE "bob",
     domain |-> domain]

BindingLists ==
    UNION {{[i \in 1..n |-> BindingAt(i, ds[i])] : ds \in [1..n -> StoredPatterns]} :
                n \in 0..MaxBindings}

InitPatterns ==
    /\ StorageIdle
    /\ PathIdle
    /\ DomainIdle
    /\ QuotaIdle
    /\ PubIdle
    /\ SpacesIdle
    /\ TtlIdle
    /\ fnOut = NoFnOut
    /\ \/ \E host \in PatternHosts, domain \in StoredPatterns :
            fnIn = [NoFnIn EXCEPT !.fn = "matchesDomain", !.host = host, !.a = domain]
       \/ \E a \in StoredPatterns, b \in StoredPatterns :
            fnIn = [NoFnIn EXCEPT !.fn = "domainIntersects", !.a = a, !.b = b]
       \/ \E host \in PatternHosts, bindings \in BindingLists :
            fnIn = [NoFnIn EXCEPT !.fn = "resolveSpaceByHost", !.host = host,
                                  !.bindings = bindings]

FnFrame ==
    UNCHANGED <<maxSpaceBytes, maxTotalBytes, registry, disk, tasks, jobs, uploads, ops,
                lastPoll, pathVars, domainVars, quotaVars, fnIn, pubReq, spaceReqs, ttlVars>>

\* The call matchesDomain(fnIn.host, fnIn.a).
MatchesDomainCall ==
    /\ fnIn.fn = "matchesDomain" /\ fnOut = NoFnOut
    /\ fnOut' = [NoFnOut EXCEPT !.returned = TRUE, !.bool = matchesDomain(fnIn.host, fnIn.a)]
    /\ FnFrame

\* The call domainIntersects(fnIn.a, fnIn.b).
DomainIntersectsCall ==
    /\ fnIn.fn = "domainIntersects" /\ fnOut = NoFnOut
    /\ fnOut' = [NoFnOut EXCEPT !.returned = TRUE, !.bool = domainIntersects(fnIn.a, fnIn.b)]
    /\ FnFrame

\* The call resolveSpaceByHost(fnIn.host) with fnIn.bindings cached.
ResolveSpaceByHostCall ==
    /\ fnIn.fn = "resolveSpaceByHost" /\ fnOut = NoFnOut
    /\ fnOut' = [NoFnOut EXCEPT !.returned = TRUE,
                                !.binding = resolveSpaceByHost(fnIn.bindings, fnIn.host)]
    /\ FnFrame

NextPatterns == MatchesDomainCall \/ DomainIntersectsCall \/ ResolveSpaceByHostCall

SpecPatterns == InitPatterns /\ [][NextPatterns]_vars

IsWildcardPattern(pattern) == Len(pattern) > 2 /\ pattern[1] = "*" /\ pattern[2] = "."

WildcardBase(pattern) == SubSeq(pattern, 3, Len(pattern))

DotSuffixOf(str, base) == endsWith(str, <<".">> \o base)

ABEC == <<"a", ".", "b", ".", "e", ".", "c">>

\* C12: for an exact stored pattern matchesDomain is true iff the host equals
\* it; for a wildcard '*.base' it is true iff the host differs from base and
\* ends with '.base': 'a.b.e.c' matches '*.e.c' and 'e.c' does not.
MatchesExactOrDotSuffix ==
    (fnOut.returned /\ fnIn.fn = "matchesDomain") =>
        /\ IF IsWildcardPattern(fnIn.a)
           THEN fnOut.bool <=> /\ fnIn.host # WildcardBase(fnIn.a)
                               /\ DotSuffixOf(fnIn.host, WildcardBase(fnIn.a))
           ELSE fnOut.bool <=> fnIn.host = fnIn.a
        /\ (fnIn.host = ABEC /\ fnIn.a = WildcardEC) => fnOut.bool
        /\ (fnIn.host = ApexEC /\ fnIn.a = WildcardEC) => ~fnOut.bool

\* C12 witness: matchesDomain('a.b.e.c', '*.e.c') has returned true.
DeepHostMatchesWildcard ==
    /\ fnOut.returned /\ fnIn.fn = "matchesDomain"
    /\ fnIn.host = ABEC /\ fnIn.a = WildcardEC /\ fnOut.bool

\* C13: domainIntersects on two stored patterns is true exactly when both are
\* exact and equal, or both are wildcards whose bases are equal or one a
\* dot-suffix of the other, or one is exact, one a wildcard, and the exact host
\* differs from the wildcard's base and ends with '.' + that base; and it gives
\* the same for (a, b) and (b, a).
IntersectsExactlyAndSymmetric ==
    (fnOut.returned /\ fnIn.fn = "domainIntersects") =>
        LET a == fnIn.a
            b == fnIn.b
            wa == IsWildcardPattern(a)
            wb == IsWildcardPattern(b)
            Mixed(exact, wild) ==
                /\ exact # WildcardBase(wild)
                /\ DotSuffixOf(exact, WildcardBase(wild))
        IN  /\ fnOut.bool <=>
                  \/ ~wa /\ ~wb /\ a = b
                  \/ wa /\ wb /\ \/ WildcardBase(a) = WildcardBase(b)
                                 \/ DotSuffixOf(WildcardBase(a), WildcardBase(b))
                                 \/ DotSuffixOf(WildcardBase(b), WildcardBase(a))
                  \/ wa /\ ~wb /\ Mixed(b, a)
                  \/ ~wa /\ wb /\ Mixed(a, b)
            /\ fnOut.bool = domainIntersects(b, a)

\* C13 witness: domainIntersects('f.e.c', '*.e.c') has returned true.
ExactUnderWildcardIntersects ==
    /\ fnOut.returned /\ fnIn.fn = "domainIntersects"
    /\ fnIn.a = SubEC /\ fnIn.b = WildcardEC /\ fnOut.bool

\* C14: resolveSpaceByHost returns undefined iff no cached binding matches the
\* host; otherwise a cached binding that matches the host and whose pattern is
\* at least as long as every other matching binding's.
ResolvesLongestMatch ==
    (fnOut.returned /\ fnIn.fn = "resolveSpaceByHost") =>
        LET bindings == fnIn.bindings
            Matches(i) == matchesDomain(fnIn.host, bindings[i].domain)
        IN  /\ fnOut.binding = NoBinding <=> ~\E i \in DOMAIN bindings : Matches(i)
            /\ fnOut.binding # NoBinding =>
                  /\ \E i \in DOMAIN bindings : bindings[i] = fnOut.binding /\ Matches(i)
                  /\ \A i \in DOMAIN bindings :
                        Matches(i) => Len(fnOut.binding.domain) >= Len(bindings[i].domain)

\* C14 witness: with the longer wildcard '*.e.c' listed before the shorter
\* '*.c', host 'f.e.c' has resolved to the binding of '*.e.c'.
LongerWildcardWins ==
    /\ fnOut.returned /\ fnIn.fn = "resolveSpaceByHost"
    /\ fnIn.host = SubEC
    /\ Len(fnIn.bindings) = 2
    /\ fnIn.bindings[1].domain = WildcardEC
    /\ fnIn.bindings[2].domain = <<"*", ".", "c">>
    /\ fnOut.binding = fnIn.bindings[1]

\* ========================================================= the public router
\* host.split(':')[0]
RECURSIVE BeforeColon(_)
BeforeColon(str) ==
    IF str = <<>> \/ Head(str) = ":" THEN <<>> ELSE <<Head(str)>> \o BeforeColon(Tail(str))

\* stripPort: the part before the first ':', lower-cased.
stripPort(host) ==
    LET name == BeforeColon(host)
    IN  [i \in DOMAIN name |-> LowerChar(name[i])]

\* A faulty variant of methodAllowed that lets POST through.
methodAllowedPost(method) == method \in {"GET", "HEAD", "POST"}

\* ['GET', 'HEAD'].includes(method)
methodAllowed(method) == method \in {"GET", "HEAD"}

\* The ways a set of bindings can be listed.
Orderings(S) ==
    {order \in [1..Cardinality(S) -> S] : \A b \in S : \E i \in DOMAIN order : order[i] = b}

\* What the request path gives once decoded, '/' completed with index.html and
\* safeResolve applied: the name of a file of the tree, or a throw.
PublicTarget(pathname) ==
    IF pathname = "/a.txt" THEN [threw |-> FALSE, name |-> "a.txt"]
    ELSE IF pathname = "/" THEN [threw |-> FALSE, name |-> "index.html"]
    ELSE [threw |-> TRUE, name |-> "none"]

PublicPathnames == {"/a.txt", "/", "/..%2f..%2fx"}

\* The middleware of createPublicStaticMiddleware for one request: the Host
\* header, the method, the path, whether the cached bindings have outlived
\* their TTL, and whether the next handler, if called, throws.
PublicStaticMiddleware(hostHeader, method, pathname, expired, nextThrows) ==
    /\ LET host == stripPort(hostHeader)
           fresh == cache.loaded /\ ~expired
           listed == IF fresh THEN cache.bindings ELSE BindingsOf(registry)
           deferred == [NoPubReq EXCEPT !.host = host, !.method = method, !.pathname = pathname,
                                        !.nextCalls = 1, !.nextThrew = nextThrows,
                                        !.statusSet = IF nextThrows THEN 500 ELSE 0,
                                        !.bodySet = IF nextThrows THEN "Static host error"
                                                    ELSE "none"]
       IN  IF host = <<>>
           THEN /\ pubReq' = deferred
                /\ UNCHANGED cache
           ELSE /\ cache' = IF fresh THEN cache ELSE [loaded |-> TRUE, bindings |-> listed,
                                                      loadedAt |-> now]
                /\ \E bindings \in Orderings(listed) :
                     LET binding == resolveSpaceByHost(bindings, host)
                         target == PublicTarget(pathname)
                         answered == [NoPubReq EXCEPT !.host = host, !.method = method,
                                                      !.pathname = pathname, !.matched = TRUE]
                     IN  IF binding = NoBinding THEN pubReq' = deferred
                         ELSE IF ~methodAllowed(method)
                         THEN pubReq' = [answered EXCEPT !.statusSet = 405,
                                                         !.bodySet = "Method Not Allowed"]
                         ELSE IF target.threw
                         THEN pubReq' = [answered EXCEPT !.statusSet = 500,
                                                         !.bodySet = "Static host error"]
                         ELSE IF target.name \notin Paths
                                 \/ disk[binding.spaceId][target.name] = NoFile
                         THEN pubReq' = [answered EXCEPT !.statusSet = 404, !.fileStats = 1,
                                                         !.bodySet = "Not Found"]
                         ELSE pubReq' = [answered EXCEPT !.fileStats = 1, !.fileReads = 1]
    /\ UNCHANGED <<maxSpaceBytes, maxTotalBytes, registry, disk, tasks, jobs, uploads, ops,
                   lastPoll, pathVars, domReqs, domainResp, quotaVars, fnVars,
                   spaceReqs, ttlVars>>

\* Host headers: 'e.c', 'F.e.c:8', 'g.c', ':8' and none.
HostHeaders ==
    {<<"e", ".", "c">>, <<"F", ".", "e", ".", "c", ":", "8">>, <<"g", ".", "c">>,
     <<":", "8">>, <<>>}

\* s1 holds a.txt and may have '*.e.c' bound, s2 may have 'e.c' bound; the
\* cache is empty or holds what an earlier registry gave.
InitPublic ==
    /\ maxSpaceBytes = MaxSize
    /\ maxTotalBytes = MaxSize + 1
    /\ \E d1 \in {{}, {WildcardEC}}, d2 \in {{}, {ApexEC}} :
          registry = [s \in SpaceIds |->
                        [owner |-> IF s = "s1" THEN "alice" ELSE "bob",
                         domains |-> IF s = "s1" THEN d1 ELSE d2,
                         usedBytes |-> IF s = "s1" THEN 1 ELSE 0]]
    /\ disk = [s \in SpaceIds |-> [p \in Paths |->
                     IF s = "s1" /\ p = "a.txt" THEN File(1, <<>>) ELSE NoFile]]
    /\ tasks = <<>>
    /\ jobs = <<>>
    /\ uploads = [u \in 1..MaxUploads |-> NoUpload]
    /\ ops = [o \in 1..MaxOps |-> NoOp]
    /\ lastPoll = NoPoll
    /\ \/ cache = NoCache
       \/ \E c1 \in {{}, {WildcardEC}}, c2 \in {{}, {ApexEC}} :
            cache = [loaded |-> TRUE,
                     bindings |-> {BindingAt(1, d) : d \in c1} \cup {BindingAt(2, d) : d \in c2},
                     loadedAt |-> 0]
    /\ domReqs = [i \in 1..MaxDomainReqs |-> NoDomReq]
    /\ domainResp = NoDomainResp
    /\ PathIdle
    /\ QuotaIdle
    /\ FnIdle
    /\ PubIdle
    /\ SpacesIdle
    /\ TtlIdle

NextPublic ==
    \E hostHeader \in HostHeaders, method \in {"GET", "HEAD", "POST", "DELETE"},
       pathname \in PublicPathnames, expired \in BOOLEAN, nextThrows \in BOOLEAN :
        PublicStaticMiddleware(hostHeader, method, pathname, expired, nextThrows)

SpecPublic == InitPublic /\ [][NextPublic]_vars

\* C15: for a request whose normalised Host is empty or matches no binding the
\* router calls the next handler exactly once and sets neither status nor body.
UnmatchedHostOnlyDefers ==
    (pubReq # NoPubReq /\ (pubReq.host = <<>> \/ ~pubReq.matched)) =>
        /\ pubReq.nextCalls = 1
        /\ pubReq.statusSet = 0
        /\ pubReq.bodySet = "none"

\* C16: for a request whose Host matches a binding and whose method is neither
\* GET nor HEAD the router sets status 405, does not call the next handler and
\* neither stats nor reads a file of the space.
MatchedNonGetIs405 ==
    (pubReq # NoPubReq /\ pubReq.matched /\ pubReq.method \notin {"GET", "HEAD"}) =>
        /\ pubReq.statusSet = 405
        /\ pubReq.nextCalls = 0
        /\ pubReq.fileStats = 0 /\ pubReq.fileReads = 0

\* C16 witness: a POST to the bound host 'f.e.c' for the existing file a.txt
\* has been answered 405.
PostToBoundHostRefused ==
    /\ pubReq.matched /\ pubReq.method = "POST" /\ pubReq.host = SubEC
    /\ pubReq.pathname = "/a.txt" /\ pubReq.statusSet = 405

\* ===================================================== the space-level routes
\* A faulty variant of findStaticSpaceByIdAndOwner that ignores the owner.
findStaticSpaceById(id, owner) ==
    IF id \in DOMAIN registry THEN registry[id] ELSE undefined

\* findStaticSpaceByIdAndOwner: the record of that id if this account owns it.
findStaticSpaceByIdAndOwner(id, owner) ==
    IF id \in DOMAIN registry /\ registry[id].owner = owner THEN registry[id] ELSE undefined

\* createStaticSpace: a record of a fresh id, no domains, nothing used.
createStaticSpace(id, owner) ==
    [s \in DOMAIN registry \cup {id} |->
        IF s = id THEN [owner |-> owner, domains |-> {}, usedBytes |-> 0] ELSE registry[s]]

\* deleteStaticSpace: the registry without that record.
deleteStaticSpace(id) == [s \in DOMAIN registry \ {id} |-> registry[s]]

\* The routes under /api/static/spaces/:spaceId.
SpaceRoutes ==
    {"deleteSpace", "domains", "tree", "folder", "rename", "item", "file", "zip", "unzip",
     "upload"}

\* A space-level request that has answered.
DoneSpaceReq(req, resp) == [req EXCEPT !.pc = "done", !.resp = resp]

\* POST /api/static/spaces up to the await of createStaticSpace: the name is
\* validated, the owner's spaces are listed and counted against the ceiling.
CreateStart(r, who, named) ==
    /\ spaceReqs[r].pc = "free"
    /\ \A i \in 1..(r - 1) : spaceReqs[i].pc # "free"
    /\ LET req == [NoSpaceReq EXCEPT !.route = "create", !.who = who]
           spaces == listStaticSpacesByOwner(who)
       IN  spaceReqs' = [spaceReqs EXCEPT ![r] =
              IF ~named THEN DoneSpaceReq(req, JsonError("space name is empty"))
              ELSE IF Cardinality(spaces) >= maxSpacesPerUser
              THEN DoneSpaceReq(req, JsonError("space limit reached"))
              ELSE [req EXCEPT !.pc = "checked"]]
    /\ UNCHANGED <<maxSpaceBytes, maxTotalBytes, registry, disk, tasks, jobs, uploads, ops,
                   lastPoll, pathVars, domainVars, quotaVars, fnVars, pubReq, ttlVars>>

\* The rest of the create request: createStaticSpace, ensureSpaceRoot, the
\* success response, refreshBindings.
CreateCommit(r) ==
    /\ spaceReqs[r].pc = "checked"
    /\ DOMAIN registry # SpaceIds
    /\ LET free == SpaceIds \ DOMAIN registry
           id == IF "s1" \in free THEN "s1" ELSE CHOOSE s \in free : TRUE
       IN  /\ registry' = createStaticSpace(id, spaceReqs[r].who)
           /\ spaceReqs' = [spaceReqs EXCEPT ![r] =
                  DoneSpaceReq([spaceReqs[r] EXCEPT !.space = id], JsonOk(undefined))]
    /\ cache' = [loaded |-> TRUE, bindings |-> BindingsOf(registry'), loadedAt |-> now]
    /\ UNCHANGED <<maxSpaceBytes, maxTotalBytes, disk, tasks, jobs, uploads, ops,
                   lastPoll, pathVars, domReqs, domainResp, quotaVars, fnVars, pubReq, ttlVars>>

\* A request on a route under /api/static/spaces/:spaceId, from its start: the
\* space is looked up for the caller, and when there is none the throw is
\* answered by jsonGuard.  For DELETE of the space the request goes on to its
\* end: the record and the space's directory are removed, the bindings are
\* refreshed.  The other routes go on as their own actions describe.
SpaceRoute(r, route, who, space) ==
    /\ spaceReqs[r].pc = "free"
    /\ \A i \in 1..(r - 1) : spaceReqs[i].pc # "free"
    /\ LET req == [NoSpaceReq EXCEPT !.route = route, !.who = who, !.space = space]
           found == findStaticSpaceByIdAndOwner(space, who)
       IN  IF found = undefined
           THEN /\ spaceReqs' = [spaceReqs EXCEPT ![r] =
                                    DoneSpaceReq(req, JsonError("space not found"))]
                /\ UNCHANGED <<registry, disk, cache>>
           ELSE /\ route = "deleteSpace"
                /\ registry' = deleteStaticSpace(space)
                /\ disk' = [disk EXCEPT ![space] = [p \in Paths |-> NoFile]]
                /\ cache' = [loaded |-> TRUE, bindings |-> BindingsOf(registry'), loadedAt |-> now]
                /\ spaceReqs' = [spaceReqs EXCEPT ![r] = DoneSpaceReq(req, JsonOk(undefined))]
    /\ UNCHANGED <<maxSpaceBytes, maxTotalBytes, tasks, jobs, uploads, ops,
                   lastPoll, pathVars, domReqs, domainResp, quotaVars, fnVars, pubReq, ttlVars>>

\* No space, or alice's s1 holding a.txt and bound to 'e.c'.
InitSpaces ==
    /\ maxSpaceBytes = MaxSize
    /\ maxTotalBytes = MaxSize + 1
    /\ \/ /\ registry = [s \in {} |-> [owner |-> "nobody", domains |-> {}, usedBytes |-> 0]]
          /\ disk = [s \in SpaceIds |-> [p \in Paths |-> NoFile]]
       \/ /\ registry = [s \in {"s1"} |->
                           [owner |-> "alice", domains |-> {ApexEC}, usedBytes |-> 1]]
          /\ disk = [s \in SpaceIds |-> [p \in Paths |->
                       IF s = "s1" /\ p = "a.txt" THEN File(1, <<>>) ELSE NoFile]]
    /\ tasks = <<>>
    /\ jobs = <<>>
    /\ uploads = [u \in 1..MaxUploads |-> NoUpload]
    /\ ops = [o \in 1..MaxOps |-> NoOp]
    /\ lastPoll = NoPoll
    /\ PathIdle
    /\ DomainIdle
    /\ QuotaIdle
    /\ FnIdle
    /\ PubIdle
    /\ SpacesIdle
    /\ TtlIdle

NextSpaces ==
    \/ \E r \in 1..MaxSpaceReqs, who \in Accounts, named \in BOOLEAN : CreateStart(r, who, named)
    \/ \E r \in 1..MaxSpaceReqs : CreateCommit(r)
    \/ \E r \in 1..MaxSpaceReqs, route \in SpaceRoutes, who \in Accounts, space \in SpaceIds :
            SpaceRoute(r, route, who, space)

SpecSpaces == InitSpaces /\ [][NextSpaces]_vars

\* C25: no owner ever has more than maxSpacesPerUser spaces, and a create
\* request that finds the owner with that many already fails and creates
\* nothing.
SpacesPerOwnerBounded ==
    /\ \A who \in Accounts : Cardinality(listStaticSpacesByOwner(who)) <= maxSpacesPerUser
    /\ \A r \in 1..MaxSpaceReqs :
          (spaceReqs[r].route = "create" /\ spaceReqs[r].pc = "done"
              /\ ~spaceReqs[r].resp.success) => spaceReqs[r].space = "none"

\* C25 witness: a create request of alice, who has s1, has been refused for
\* the ceiling.
CreateRefusedAtCeiling ==
    \E r \in 1..MaxSpaceReqs :
        /\ spaceReqs[r].route = "create" /\ spaceReqs[r].who = "alice"
        /\ spaceReqs[r].resp = JsonError("space limit reached")
        /\ listStaticSpacesByOwner("alice") = {"s1"}

\* C27: a request on any per-space route that names a space that does not
\* exist or belongs to another tenant is answered 400 with a failure, and
\* answering it changes no registry record, no file, no cached binding and no
\* task.
ForeignSpaceRequestRefused ==
    [][\A r \in 1..MaxSpaceReqs :
          (/\ spaceReqs[r].pc = "free" /\ spaceReqs'[r].pc = "done"
           /\ spaceReqs'[r].route \in SpaceRoutes
           /\ \/ spaceReqs'[r].space \notin DOMAIN registry
              \/ registry[spaceReqs'[r].space].owner # spaceReqs'[r].who)
              => /\ spaceReqs'[r].resp.status = 400 /\ ~spaceReqs'[r].resp.success
                 /\ registry' = registry /\ disk' = disk /\ cache' = cache
                 /\ tasks' = tasks /\ jobs' = jobs]_vars

\* C27 witness: bob's DELETE of alice's space s1 has been answered 400 and s1,
\* its file and its domain are still there.
ForeignDeleteRefused ==
    \E r \in 1..MaxSpaceReqs :
        /\ spaceReqs[r].route = "deleteSpace" /\ spaceReqs[r].who = "bob"
        /\ spaceReqs[r].space = "s1" /\ spaceReqs[r].resp = JsonError("space not found")
        /\ "s1" \in DOMAIN registry /\ registry["s1"].domains = {ApexEC}
        /\ disk["s1"]["a.txt"] = File(1, <<>>)

\* ============================================ the file and item routes alone
\* The last index of ch in str, 0 when there is none.
RECURSIVE LastIndexOf(_, _)
LastIndexOf(str, ch) ==
    IF str = <<>> THEN 0
    ELSE IF str[Len(str)] = ch THEN Len(str)
    ELSE LastIndexOf(SubSeq(str, 1, Len(str) - 1), ch)

\* A faulty variant of path.extname that takes a leading '.' for the start of
\* an extension.
extnameFromAnyDot(filePath) ==
    LET base == SubSeq(filePath, LastIndexOf(filePath, "/") + 1, Len(filePath))
        dot == LastIndexOf(base, ".")
    IN  IF dot = 0 THEN <<>> ELSE SubSeq(base, dot, Len(base))

\* path.extname: from the last '.' of the last segment to its end; nothing
\* when there is no '.' or the segment begins with its only '.'.
extname(filePath) ==
    LET base == SubSeq(filePath, LastIndexOf(filePath, "/") + 1, Len(filePath))
        dot == LastIndexOf(base, ".")
    IN  IF dot <= 1 THEN <<>> ELSE SubSeq(base, dot, Len(base))

\* The extensions ensureEditableFile allows.
EditableExtensions ==
    {<<".", "h", "t", "m", "l">>, <<".", "h", "t", "m">>, <<".", "c", "s", "s">>,
     <<".", "j", "s">>, <<".", "j", "s", "o", "n">>, <<".", "t", "x", "t">>,
     <<".", "m", "d">>}

\* A faulty variant of ensureEditableFile that compares the extension as it
\* is written.
ensureEditableFileExact(filePath) == extname(filePath) \notin EditableExtensions

\* ensureEditableFile: TRUE when it throws.
ensureEditableFile(filePath) ==
    LET ext == [i \in DOMAIN extname(filePath) |-> LowerChar(extname(filePath)[i])]
    IN  ext \notin EditableExtensions

\* ensureSpaceRoot: rootDir '/d' joined with the space id.
ensureSpaceRoot(space) ==
    <<"/", "d", "/">> \o (IF space = "s1" THEN <<"s", "1">> ELSE <<"s", "2">>)

\* The name, in the model's tree, of what a resolved target designates.
TreeName(space, target) ==
    LET root == ensureSpaceRoot(space)
    IN  IF target = root THEN RootDir
        ELSE IF target = root \o <<"/", "a", ".", "t", "x", "t">> THEN "a.txt"
        ELSE IF target = root \o <<"/", "z", ".", "z", "i", "p">> THEN "z.zip"
        ELSE "absent"

\* The path arguments of the file route: 'a.txt', 'a.MD', 'z.zip', 'a', '.md',
\* '../a.txt' and '../z.zip'.
FilePaths ==
    {<<"a", ".", "t", "x", "t">>, <<"a", ".", "M", "D">>, <<"z", ".", "z", "i", "p">>,
     <<"a">>, <<".", "m", "d">>, <<".", ".", "/", "a", ".", "t", "x", "t">>,
     <<".", ".", "/", "z", ".", "z", "i", "p">>}

\* The file route up to its first await after the path is validated.  GET
\* resolves the path, then checks the extension; POST checks the extension,
\* then resolves the path.  A throw is answered by jsonGuard.
FileRequest(o, method, who, space, targetPath) ==
    /\ ops[o].pc = "free"
    /\ \A i \in 1..(o - 1) : ops[i].pc # "free"
    /\ findStaticSpaceByIdAndOwner(space, who) # undefined
    /\ LET resolved == safeResolve(ensureSpaceRoot(space), targetPath)
           op == [NoOp EXCEPT !.kind = IF method = "GET" THEN "read" ELSE "write",
                              !.who = who, !.space = space, !.targetPath = targetPath]
           fail(message) ==
               ops' = [ops EXCEPT ![o] =
                          DoneOp(op, [success |-> FALSE, message |-> message])]
       IN  IF method = "GET" /\ resolved.threw THEN fail("illegal path")
           ELSE IF ensureEditableFile(targetPath) THEN fail("not editable")
           ELSE IF resolved.threw THEN fail("illegal path")
           ELSE /\ method = "POST" => TreeName(space, resolved.target) \in Paths
                /\ ops' = [ops EXCEPT ![o] =
                             [op EXCEPT !.pc = "started",
                                        !.path = TreeName(space, resolved.target),
                                        !.usedSnap = registry[space].usedBytes]]
    /\ lastPoll' = NoPoll
    /\ UNCHANGED <<restVars, uploads, maxSpaceBytes, maxTotalBytes, registry, disk, tasks, jobs>>

\* The rest of the file GET: stat the target, read it.
ReadCommit(o) ==
    /\ ops[o].pc = "started" /\ ops[o].kind = "read"
    /\ LET op == ops[o]
           message == IF op.path \notin Paths \cup {RootDir} THEN "ENOENT"
                      ELSE IF op.path = RootDir THEN "only files can be edited"
                      ELSE IF disk[op.space][op.path] = NoFile THEN "ENOENT"
                      ELSE NoMessage
       IN  ops' = [ops EXCEPT ![o] =
                      DoneOp(op, [success |-> message = NoMessage, message |-> message])]
    /\ lastPoll' = NoPoll
    /\ UNCHANGED <<restVars, uploads, maxSpaceBytes, maxTotalBytes, registry, disk, tasks, jobs>>

\* alice's s1 with or without the 1-byte a.txt, and a 1-byte z.zip; the
\* recorded usage is the true one or one that earlier failures left behind.
InitItems ==
    /\ maxSpaceBytes \in {MaxSize, MaxSize + 1}
    /\ maxTotalBytes = MaxSize + 1
    /\ \E n \in 0..1, used \in 0..2 :
          /\ registry = [s \in {"s1"} |->
                           [owner |-> "alice", domains |-> {}, usedBytes |-> used]]
          /\ disk = [s \in SpaceIds |-> [p \in Paths |->
                       IF s # "s1" THEN NoFile
                       ELSE IF p = "z.zip" THEN File(1, <<>>)
                       ELSE IF n = 1 THEN File(1, <<>>) ELSE NoFile]]
    /\ tasks = <<>>
    /\ jobs = <<>>
    /\ uploads = [u \in 1..MaxUploads |-> NoUpload]
    /\ ops = [o \in 1..MaxOps |-> NoOp]
    /\ lastPoll = NoPoll
    /\ PathIdle
    /\ DomainIdle
    /\ QuotaIdle
    /\ FnIdle
    /\ PubIdle
    /\ SpacesIdle
    /\ TtlIdle

NextItems ==
    \/ \E o \in 1..MaxOps, method \in {"GET", "POST"}, who \in Accounts, space \in SpaceIds,
          targetPath \in FilePaths : FileRequest(o, method, who, space, targetPath)
    \/ \E o \in 1..MaxOps : ReadCommit(o)
    \/ \E o \in 1..MaxOps, newSize \in 0..MaxSize : WriteCommit(o, newSize)
    \/ \E o \in 1..MaxOps, who \in Accounts, space \in SpaceIds, path \in Paths \cup {RootDir} :
            OpStart(o, "delete", who, space, path)
    \/ \E o \in 1..MaxOps : DeleteCommit(o)

SpecItems == InitItems /\ [][NextItems]_vars

\* The path arguments whose extension is outside the editable allow-list:
\* 'z.zip', 'a', '.md' and '../z.zip'.
NotEditablePaths ==
    {<<"z", ".", "z", "i", "p">>, <<"a">>, <<".", "m", "d">>,
     <<".", ".", "/", "z", ".", "z", "i", "p">>}

\* The path arguments that climb out of the space root.
ClimbingPaths ==
    {<<".", ".", "/", "a", ".", "t", "x", "t">>, <<".", ".", "/", "z", ".", "z", "i", "p">>}

\* The file request o is answered in this step with the not-editable error,
\* the disk and the recorded usage left as they were.
RefusedAsNotEditable(o) ==
    /\ ops'[o].pc = "done"
    /\ ops'[o].resp = [success |-> FALSE, message |-> "not editable"]
    /\ UNCHANGED <<disk, registry>>

Beneath(target) == IF target = RootDir THEN Paths ELSE {target}

\* The total size of the regular files of a space among the paths S.
RECURSIVE SizeOfFiles(_, _)
SizeOfFiles(space, S) ==
    IF S = {} THEN 0
    ELSE LET p == CHOOSE q \in S : TRUE
         IN  (IF disk[space][p] = NoFile THEN 0 ELSE disk[space][p].size)
                + SizeOfFiles(space, S \ {p})

\* C30: a successful item deletion removes the target and everything beneath
\* it, leaves the other files alone, and sets the space's recorded usage to
\* max(0, usage at request start - s), s being the total size of the regular
\* files under the target as they were before the removal.
DeleteRecordsSizeBeforeRemoval ==
    [][\A o \in 1..MaxOps :
          (/\ ops[o].pc = "started" /\ ops[o].kind = "delete"
           /\ ops'[o].pc = "done" /\ ops'[o].resp.success)
          => LET space == ops[o].space
                 s == SizeOfFiles(space, Beneath(ops[o].path))
             IN  /\ \A p \in Paths :
                       disk'[space][p] = IF p \in Beneath(ops[o].path) THEN NoFile
                                         ELSE disk[space][p]
                 /\ registry'[space].usedBytes =
                       IF ops[o].usedSnap > s THEN ops[o].usedSnap - s ELSE 0]_vars

\* A deletion succeeded, left no file in the space and the recorded usage at 0.
WholeTreeDeletedUsageZero ==
    \E o \in 1..MaxOps :
        /\ ops[o].pc = "done" /\ ops[o].kind = "delete" /\ ops[o].resp.success
        /\ registry["s1"].usedBytes = 0
        /\ \A p \in Paths : disk["s1"][p] = NoFile

\* ======================================================= the binding cache
CACHE_TTL_MS == 60000

\* A faulty variant of the freshness test of getBindings that still answers
\* from a snapshot whose age equals the TTL.
cacheFreshInclusive == cache.loaded /\ (now - cache.loadedAt) <= CACHE_TTL_MS

\* The freshness test of getBindings.
cacheFresh == cache.loaded /\ (now - cache.loadedAt) < CACHE_TTL_MS

\* getBindings up to its return or to the await inside refreshBindings.
GetBindings(l) ==
    /\ lookups[l].pc = "free"
    /\ \A i \in 1..(l - 1) : lookups[i].pc # "free"
    /\ lookups' = [lookups EXCEPT ![l] =
                      IF cacheFresh
                      THEN [NoLookup EXCEPT !.pc = "done", !.fromCache = TRUE,
                                            !.result = cache.bindings]
                      ELSE [NoLookup EXCEPT !.pc = "load"]]
    /\ UNCHANGED <<maxSpaceBytes, maxTotalBytes, registry, disk, tasks, jobs, uploads, ops,
                   lastPoll, pathVars, domainVars, quotaVars, fnVars, pubReq, spaceReqs, now>>

\* refreshBindings called by getBindings: listAllStaticSpaces completes.
RefreshLoad(l) ==
    /\ lookups[l].pc = "load"
    /\ lookups' = [lookups EXCEPT ![l].pc = "store", ![l].loaded = BindingsOf(registry)]
    /\ UNCHANGED <<maxSpaceBytes, maxTotalBytes, registry, disk, tasks, jobs, uploads, ops,
                   lastPoll, pathVars, domainVars, quotaVars, fnVars, pubReq, spaceReqs, now>>

\* refreshBindings called by getBindings: the cache is replaced and stamped,
\* the bindings are returned.
RefreshStore(l) ==
    /\ lookups[l].pc = "store"
    /\ cache' = [loaded |-> TRUE, bindings |-> lookups[l].loaded, loadedAt |-> now]
    /\ lookups' = [lookups EXCEPT ![l] =
                      [NoLookup EXCEPT !.pc = "done", !.result = lookups[l].loaded]]
    /\ UNCHANGED <<maxSpaceBytes, maxTotalBytes, registry, disk, tasks, jobs, uploads, ops,
                   lastPoll, pathVars, domReqs, domainResp, quotaVars, fnVars, pubReq,
                   spaceReqs, now>>

\* The instants at which the model looks at the clock.
Instants == {0, 1, CACHE_TTL_MS - 1, CACHE_TTL_MS, CACHE_TTL_MS + 1}

\* Time passes.
Tick(t) ==
    /\ t > now
    /\ now' = t
    /\ UNCHANGED <<maxSpaceBytes, maxTotalBytes, registry, disk, tasks, jobs, uploads, ops,
                   lastPoll, pathVars, domainVars, quotaVars, fnVars, pubReq, spaceReqs,
                   lookups>>

\* alice's s1 bound to 'e.c' or to nothing; no cache yet, or one loaded at
\* time 0 that holds the registry's bindings or those of before the last
\* change of the registry.
InitTtl ==
    /\ maxSpaceBytes = MaxSize
    /\ maxTotalBytes = MaxSize + 1
    /\ \E domains \in {{}, {ApexEC}} :
          registry = [s \in {"s1"} |->
                        [owner |-> "alice", domains |-> domains, usedBytes |-> 0]]
    /\ disk = [s \in SpaceIds |-> [p \in Paths |-> NoFile]]
    /\ tasks = <<>>
    /\ jobs = <<>>
    /\ uploads = [u \in 1..MaxUploads |-> NoUpload]
    /\ ops = [o \in 1..MaxOps |-> NoOp]
    /\ lastPoll = NoPoll
    /\ \/ cache = NoCache
       \/ \E domains \in {{}, {ApexEC}} :
            cache = [loaded |-> TRUE, loadedAt |-> 0,
                     bindings |-> {[spaceId |-> "s1", owner |-> "alice", domain |-> d] :
                                      d \in domains}]
    /\ domReqs = [i \in 1..MaxDomainReqs |-> NoDomReq]
    /\ domainResp = NoDomainResp
    /\ PathIdle
    /\ QuotaIdle
    /\ FnIdle
    /\ PubIdle
    /\ SpacesIdle
    /\ TtlIdle

NextTtl ==
    \/ \E l \in 1..MaxLookups : GetBindings(l)
    \/ \E l \in 1..MaxLookups : RefreshLoad(l)
    \/ \E l \in 1..MaxLookups : RefreshStore(l)
    \/ \E t \in Instants : Tick(t)

SpecTtl == InitTtl /\ [][NextTtl]_vars

\* C33: getBindings answers from the cache only while the snapshot is younger
\* than 60 000 ms, and then returns it as it is without reloading; when the
\* cache is absent or its age has reached the TTL the call reloads all
\* bindings from the registry and, before it returns them, replaces the cache
\* and stamps it with the current time.
GetBindingsHonoursTtl ==
    [][\A l \in 1..MaxLookups :
          /\ (lookups[l].pc = "free" /\ lookups'[l].pc # "free")
                => IF cache.loaded /\ now < cache.loadedAt + CACHE_TTL_MS
                   THEN /\ lookups'[l].pc = "done" /\ lookups'[l].fromCache
                        /\ lookups'[l].result = cache.bindings
                        /\ cache' = cache
                   ELSE lookups'[l].pc = "load"
          /\ (lookups[l].pc = "load" /\ lookups'[l].pc # "load")
                => lookups'[l].pc = "store" /\ lookups'[l].loaded = BindingsOf(registry)
          /\ (lookups[l].pc = "store" /\ lookups'[l].pc # "store")
                => /\ lookups'[l].pc = "done" /\ ~lookups'[l].fromCache
                   /\ lookups'[l].result = lookups[l].loaded
                   /\ cache' = [loaded |-> TRUE, bindings |-> lookups[l].loaded,
                                loadedAt |-> now]]_vars

\* A first call was answered from the cache and a second, made once the
\* snapshot had reached the TTL, reloaded and stamped the cache anew.
ReloadedAtTtl ==
    /\ lookups[1].pc = "done" /\ lookups[1].fromCache
    /\ lookups[2].pc = "done" /\ ~lookups[2].fromCache
    /\ cache.loadedAt >= CACHE_TTL_MS

\* The patterns the domain requests of the cache runs name: 'e.c' and '*.e.c'.
CacheInputs == {ApexEC, WildcardEC}

\* alice's s1, bound to 'e.c' or to nothing, and the cache loaded from it.
InitCache ==
    /\ maxSpaceBytes = MaxSize
    /\ maxTotalBytes = MaxSize + 1
    /\ \E domains \in {{}, {ApexEC}} :
          registry = [s \in {"s1"} |->
                        [owner |-> "alice", domains |-> domains, usedBytes |-> 0]]
    /\ disk = [s \in SpaceIds |-> [p \in Paths |-> NoFile]]
    /\ tasks = <<>>
    /\ jobs = <<>>
    /\ uploads = [u \in 1..MaxUploads |-> NoUpload]
    /\ ops = [o \in 1..MaxOps |-> NoOp]
    /\ lastPoll = NoPoll
    /\ cache = [loaded |-> TRUE, bindings |-> BindingsOf(registry), loadedAt |-> 0]
    /\ domReqs = [i \in 1..MaxDomainReqs |-> NoDomReq]
    /\ domainResp = NoDomainResp
    /\ PathIdle
    /\ QuotaIdle
    /\ FnIdle
    /\ PubIdle
    /\ SpacesIdle
    /\ TtlIdle

\* Bind, unbind and delete-space requests and getBindings calls, interleaved.
NextCache ==
    \/ \E slot \in 1..MaxDomainReqs, method \in {"POST", "DELETE"}, input \in CacheInputs :
            DomainStart(slot, "alice", "s1", method, input)
    \/ \E slot \in 1..MaxDomainReqs : DomainCheck(slot)
    \/ \E slot \in 1..MaxDomainReqs : DomainWrite(slot)
    \/ \E slot \in 1..MaxDomainReqs : DomainLoad(slot)
    \/ \E slot \in 1..MaxDomainReqs : DomainStore(slot)
    \/ \E r \in 1..MaxSpaceReqs : SpaceRoute(r, "deleteSpace", "alice", "s1")
    \/ \E l \in 1..MaxLookups : GetBindings(l)
    \/ \E l \in 1..MaxLookups : RefreshLoad(l)
    \/ \E l \in 1..MaxLookups : RefreshStore(l)
    \/ Tick(CACHE_TTL_MS)

SpecCache == InitCache /\ [][NextCache]_vars

\* C31: once a delete-space request has answered success, resolveSpaceByHost
\* answering from the cache returns no binding of the deleted space, for any
\* host and any order of the cached bindings.
DeletedSpaceNeverResolved ==
    \A r \in 1..MaxSpaceReqs :
        (/\ spaceReqs[r].pc = "done" /\ spaceReqs[r].route = "deleteSpace"
         /\ spaceReqs[r].resp.success
         /\ cacheFresh)
        => \A host \in PatternHosts, bindings \in Orderings(cache.bindings) :
                resolveSpaceByHost(bindings, host).spaceId # spaceReqs[r].space

\* A delete-space request answered success and the cache holds no binding.
DeletedSpaceGoneFromCache ==
    \E r \in 1..MaxSpaceReqs :
        /\ spaceReqs[r].pc = "done" /\ spaceReqs[r].route = "deleteSpace"
        /\ spaceReqs[r].resp.success
        /\ cache.loaded /\ cache.bindings = {}

\* C34: once every refresh in flight has completed, the cached snapshot
\* equals the bindings derived from the registry.
QuiescentCacheMatchesRegistry ==
    (/\ \A slot \in 1..MaxDomainReqs : domReqs[slot].pc \notin {"load", "store"}
     /\ \A l \in 1..MaxLookups : lookups[l].pc \notin {"load", "store"}
     /\ cache.loaded)
    => cache.bindings = BindingsOf(registry)

\* Two refreshes have completed and the cache matches the registry.
TwoRefreshesAgree ==
    /\ \A slot \in 1..2 : domReqs[slot].pc = "done"
    /\ cache.loaded /\ cache.bindings = BindingsOf(registry)
    /\ cache.bindings # {}

\* ======================================================== the upload route alone
\* alice's s1 and s2 with a ceiling of MaxSize bytes each and MaxSize + 1 for
\* the owner; s1 holds the 1-byte a.txt or nothing, and its recorded usage is
\* 0, 1 or 2.
InitUpload ==
    /\ maxSpaceBytes = MaxSize
    /\ maxTotalBytes = MaxSize + 1
    /\ \E used \in 0..MaxSize, held \in BOOLEAN :
          /\ registry = [s \in SpaceIds |->
                           [owner |-> "alice", domains |-> {},
                            usedBytes |-> IF s = "s1" THEN used ELSE 0]]
          /\ disk = [s \in SpaceIds |-> [p \in Paths |->
                       IF s = "s1" /\ p = "a.txt" /\ held THEN File(1, <<>>) ELSE NoFile]]
    /\ tasks = <<>>
    /\ jobs = <<>>
    /\ uploads = [u \in 1..MaxUploads |-> NoUpload]
    /\ ops = [o \in 1..MaxOps |-> NoOp]
    /\ lastPoll = NoPoll
    /\ PathIdle
    /\ DomainIdle
    /\ QuotaIdle
    /\ FnIdle
    /\ PubIdle
    /\ SpacesIdle
    /\ TtlIdle

NextUpload ==
    \/ \E u \in 1..MaxUploads, who \in Accounts, space \in SpaceIds, path \in Paths :
            UploadStart(u, who, space, path)
    \/ \E u \in 1..MaxUploads : UploadFileUnnamed(u)
    \/ \E u \in 1..MaxUploads : UploadFile(u)
    \/ \E u \in 1..MaxUploads, n \in 1..MaxSize : UploadChunk(u, n)
    \/ \E u \in 1..MaxUploads, n \in 1..MaxSize : UploadChunkAfterAbort(u, n)
    \/ \E u \in 1..MaxUploads : UploadPartEnd(u)
    \/ \E u \in 1..MaxUploads : UploadStreamEnd(u, <<>>)
    \/ \E u \in 1..MaxUploads : UploadFilesLimit(u)
    \/ \E u \in 1..MaxUploads : UploadFinish(u)

SpecUpload == InitUpload /\ [][NextUpload]_vars

\* C32: the step in which ensureWithinLimits throws for a chunk destroys the
\* inbound and the output stream and writes nothing; from then on no step of
\* that upload writes to the disk, counts or checks another chunk, or undoes
\* the abort.
AbortedUploadWritesNoMore ==
    [][\A u \in 1..MaxUploads :
          /\ (/\ uploads[u].pc = "streaming" /\ uploads'[u].pc = "parsed"
              /\ uploads'[u].uploadError \in QuotaMessages)
                => /\ uploads'[u].destroyed = {"output", "stream"}
                   /\ disk' = disk
          /\ (uploads[u].destroyed # {} /\ uploads'[u] # uploads[u])
                => /\ disk' = disk
                   /\ uploads'[u].pc \in {"parsed", "done"}
                   /\ uploads'[u].pc = "parsed"
                        => /\ uploads'[u].uploadedBytes = uploads[u].uploadedBytes
                           /\ uploads'[u].destroyed = uploads[u].destroyed
                           /\ ~uploads'[u].writtenFile]_vars

\* An upload was aborted on its second chunk: the first chunk's byte is in
\* the target file and both streams are destroyed.
AbortedOnSecondChunk ==
    \E u \in 1..MaxUploads :
        /\ uploads[u].pc = "parsed" /\ uploads[u].destroyed = {"output", "stream"}
        /\ uploads[u].uploadedBytes > 1
        /\ disk[uploads[u].space][uploads[u].path] = File(1, <<>>)
        /\ ~uploads[u].hadFile

\* C39: an upload that ends with a failure response leaves the recorded usage
\* as it was, and a file that was at the target path before the request is
\* still there with its previous content (the 1-byte a.txt).
FailedUploadChangesNothing ==
    /\ [](\A u \in 1..MaxUploads :
            (uploads[u].pc = "done" /\ ~uploads[u].resp.success /\ uploads[u].hadFile)
            => disk[uploads[u].space][uploads[u].path] = File(1, <<>>))
    /\ [][\A u \in 1..MaxUploads :
            (uploads[u].pc # "done" /\ uploads'[u].pc = "done" /\ ~uploads'[u].resp.success)
            => registry' = registry]_vars

\* An upload onto a.txt was refused for want of a filename, and a.txt is as
\* it was.
UnnamedUploadRefused ==
    \E u \in 1..MaxUploads :
        /\ uploads[u].pc = "done" /\ uploads[u].path = "a.txt"
        /\ uploads[u].resp = [success |-> FALSE, message |-> "filename is empty"]
        /\ disk[uploads[u].space]["a.txt"] = File(1, <<>>)

\* ================================= an upload and a file write side by side
\* alice's s1, empty or holding the 1-byte a.txt, its usage recorded exactly.
InitRace ==
    /\ maxSpaceBytes = MaxSize
    /\ maxTotalBytes = MaxSize + 1
    /\ \E held \in BOOLEAN :
          /\ registry = [s \in {"s1"} |->
                           [owner |-> "alice", domains |-> {},
                            usedBytes |-> IF held THEN 1 ELSE 0]]
          /\ disk = [s \in SpaceIds |-> [p \in Paths |->
                       IF s = "s1" /\ p = "a.txt" /\ held THEN File(1, <<>>) ELSE NoFile]]
    /\ tasks = <<>>
    /\ jobs = <<>>
    /\ uploads = [u \in 1..MaxUploads |-> NoUpload]
    /\ ops = [o \in 1..MaxOps |-> NoOp]
    /\ lastPoll = NoPoll
    /\ PathIdle
    /\ DomainIdle
    /\ QuotaIdle
    /\ FnIdle
    /\ PubIdle
    /\ SpacesIdle
    /\ TtlIdle

NextRace ==
    \/ \E u \in 1..MaxUploads, who \in Accounts, space \in SpaceIds, path \in Paths :
            UploadStart(u, who, space, path)
    \/ \E u \in 1..MaxUploads : UploadFileUnnamed(u)
    \/ \E u \in 1..MaxUploads : UploadFile(u)
    \/ \E u \in 1..MaxUploads, n \in 1..MaxSize : UploadChunk(u, n)
    \/ \E u \in 1..MaxUploads, n \in 1..MaxSize : UploadChunkAfterAbort(u, n)
    \/ \E u \in 1..MaxUploads : UploadPartEnd(u)
    \/ \E u \in 1..MaxUploads : UploadStreamEnd(u, <<>>)
    \/ \E u \in 1..MaxUploads : UploadFilesLimit(u)
    \/ \E u \in 1..MaxUploads : UploadFinish(u)
    \/ \E o \in 1..MaxOps, who \in Accounts, space \in SpaceIds, path \in Paths :
            OpStart(o, "write", who, space, path)
    \/ \E o \in 1..MaxOps, newSize \in 0..MaxSize : WriteCommit(o, newSize)

SpecRace == InitRace /\ [][NextRace]_vars

\* The bytes a space holds on disk.
StoredBytes(space) == SizeOfFiles(space, Paths)

\* C35: every write that passes its check stays, counted from the usage it
\* read when it started, within the space's ceiling; two writes that overlap
\* both pass against the same recorded usage, and the bytes stored then
\* exceed the ceiling (the state StoredExceedsCeiling).
EachWriteAloneWithinCeiling ==
    [][/\ \A o \in 1..MaxOps :
            (ops[o].pc = "started" /\ ops'[o].pc = "done" /\ ops'[o].resp.success)
            => LET sp == ops[o].space
                   path == ops[o].path
                   old == IF disk[sp][path] = NoFile THEN 0 ELSE disk[sp][path].size
               IN  ops[o].usedSnap + (disk'[sp][path].size - old) <= maxSpaceBytes
       /\ \A u \in 1..MaxUploads :
            (uploads[u].pc = "streaming" /\ uploads'[u].pc = "streaming")
            => uploads[u].usedSnap + (uploads'[u].uploadedBytes - uploads[u].oldSize)
                    <= maxSpaceBytes]_vars

\* An upload and a file write have both answered success and the space holds
\* more bytes than its ceiling.
StoredExceedsCeiling ==
    /\ \E u \in 1..MaxUploads : uploads[u].pc = "done" /\ uploads[u].resp.success
    /\ \E o \in 1..MaxOps : ops[o].pc = "done" /\ ops[o].resp.success
    /\ StoredBytes("s1") > maxSpaceBytes

\* C37: no usage update is lost: every completed write adds its delta to the
\* usage recorded at that moment (where the sum is not below zero), so that
\* the recorded value is the initial one plus the deltas of all completed
\* operations, overlapping ones included.
NoUsageUpdateLost ==
    [][/\ \A o \in 1..MaxOps :
            (/\ ops[o].pc = "started" /\ ops[o].kind = "write"
             /\ ops'[o].pc = "done" /\ ops'[o].resp.success)
            => LET sp == ops[o].space
                   path == ops[o].path
                   old == IF disk[sp][path] = NoFile THEN 0 ELSE disk[sp][path].size
                   delta == disk'[sp][path].size - old
               IN  (registry[sp].usedBytes + delta >= 0 /\ ops[o].usedSnap + delta >= 0)
                   => registry'[sp].usedBytes = registry[sp].usedBytes + delta
       /\ \A u \in 1..MaxUploads :
            (uploads[u].pc # "done" /\ uploads'[u].pc = "done" /\ uploads'[u].resp.success)
            => LET sp == uploads[u].space
                   delta == uploads[u].uploadedBytes - uploads[u].oldSize
               IN  (registry[sp].usedBytes + delta >= 0 /\ uploads[u].usedSnap + delta >= 0)
                   => registry'[sp].usedBytes = registry[sp].usedBytes + delta]_vars

\* An upload and a file write have both answered success and the recorded
\* usage equals the bytes the space holds.
BothWritesAccounted ==
    /\ \E u \in 1..MaxUploads :
            /\ uploads[u].pc = "done" /\ uploads[u].resp.success
            /\ uploads[u].path = "z.zip"
    /\ \E o \in 1..MaxOps : ops[o].pc = "done" /\ ops[o].resp.success
    /\ StoredBytes("s1") = MaxSize
    /\ registry["s1"].usedBytes = MaxSize

\* ============================================ the background jobs, scheduled
\* The archive writer, the file streams and the event loop are fair: a step
\* of a job that stays possible is eventually taken.
SpecJobsFair == SpecJobs /\ WF_vars(NextJobs)

\* C36: every task a zip or unzip request created eventually is done or
\* failed.
EveryTaskSettles ==
    \A id \in TaskIds :
        [](id \in DOMAIN tasks
            => <>(id \in DOMAIN tasks /\ tasks[id].status \in {"done", "failed"}))

\* A zip job heard its output close, finished and left its task done.
ZipJobHeardClose ==
    \E id \in DOMAIN tasks :
        /\ jobs[id].kind = "zip" /\ jobs[id].pc = "end"
        /\ tasks[id].status = "done" /\ tasks[id].progress = 100

\* No two bindings of the list that belong to different spaces intersect.
NoCrossSpaceIntersectionIn(bindings) ==
    \A i \in DOMAIN bindings, j \in DOMAIN bindings :
        bindings[i].spaceId # bindings[j].spaceId
            => ~domainIntersects(bindings[i].domain, bindings[j].domain)

\* The list in the opposite order.
Reversed(bindings) == [i \in DOMAIN bindings |-> bindings[Len(bindings) + 1 - i]]

\* C38: when no two patterns of different spaces in the list intersect, all
\* bindings whose pattern matches the host belong to one space, and the space
\* resolveSpaceByHost returned is the one it returns for the list in the
\* opposite order.
ResolutionUnambiguous ==
    (/\ fnIn.fn = "resolveSpaceByHost" /\ fnOut.returned
     /\ NoCrossSpaceIntersectionIn(fnIn.bindings))
    => /\ \A i \in DOMAIN fnIn.bindings, j \in DOMAIN fnIn.bindings :
            (/\ matchesDomain(fnIn.host, fnIn.bindings[i].domain)
             /\ matchesDomain(fnIn.host, fnIn.bindings[j].domain))
            => fnIn.bindings[i].spaceId = fnIn.bindings[j].spaceId
       /\ resolveSpaceByHost(Reversed(fnIn.bindings), fnIn.host).spaceId
            = fnOut.binding.spaceId

\* 'f.e.c' was resolved against 'e.c' on s1 and '*.e.c' on s2, which do not
\* intersect, and went to s2.
SubdomainResolvedBesideApex ==
    /\ fnIn.fn = "resolveSpaceByHost" /\ fnOut.returned
    /\ fnIn.host = SubEC
    /\ fnIn.bindings = <<BindingAt(1, ApexEC), BindingAt(2, WildcardEC)>>
    /\ fnOut.binding.spaceId = "s2"

====
